---- MODULE Spec2Model ----
(***************************************************************************)
(* The analytics facade of segment-analytics: registration of destination  *)
(* constructors and middlewares, Analytics.initialize, and the dispatch of *)
(* one facade call (identify/track/page/group/alias) through the source,   *)
(* integration and destination middleware chains to the destinations.      *)
(*                                                                         *)
(* Envelopes are objects: a facade call works on a small heap (a sequence  *)
(* of envelope contents addressed by index) so that a copy and an alias    *)
(* are different things.  A middleware is arbitrary user code: each time   *)
(* one runs, its behaviour is one of MwKinds: it calls next with the       *)
(* object it was given, after marking it in place ("next"), or with a new  *)
(* object that carries its mark ("replace"), or with null ("drop"), or it  *)
(* throws, or never calls next ("stall"), or calls next with the object it *)
(* was given after it has returned ("async").  The marks an envelope       *)
(* carries are the changes middlewares made to it.                         *)
(***************************************************************************)
EXTENDS Integers, Sequences, FiniteSets, TLC

VARIABLES
  Integrations,            \* names of the registered destination constructors
  _integrations,           \* names of the instantiated destinations, in insertion order
  initializeOptions,       \* [hasIntegrations, integrations] of the last initialize
  failedInitializations,   \* names whose initialize threw in the last initialize
  _readied,                \* the facade is ready
  initialized,             \* initialize has been called
  readyCallCount,          \* per ready closure (one per initialize call): its readyCallCount
  integrationCount,        \* per ready closure: its integrationCount
  readyEmits,              \* per ready closure: the 'ready' events it emitted
  inst,                    \* per name: the current instance's once('ready') listeners, pending ready signals
  orphans,                 \* replaced instances that still owe a ready signal: listeners -> how many
  initLog,                 \* the last initialize: the destinations it called initialize on, whether it threw, its ready closure
  _sourceMiddlewares,      \* the source chain: middleware ids in registration order
  _integrationMiddlewares, \* the integration chain
  _destinationMiddlewares, \* per destination name: its destination chain (empty: none registered)
  nextMw,                  \* the id the next registered middleware gets
  log,                     \* what the last facade call since the last initialize did so far
  tasks,                   \* middleware callbacks of that call that will be called later
  run,                     \* the forEach over the destinations in progress: the next index, the facade
  user,                    \* the user entity as its store holds it: id, traits, anonymousId
  groupEntity,             \* the group entity: id, traits
  sent,                    \* the last envelopes handed to _invoke since the last initialize or reset, oldest first
  trial,                   \* one call of normalize of lib/messages: its options, its list, its result
  entity,                  \* one User or Group object: _id, _traits, its options
  store,                   \* the Store of that object: what the cookie, localStorage and memory hold
  did,                     \* the last operation on that object: its arguments, what the getters returned before it
  raised,                  \* the last addIntegration: the name of the constructor it was given, what it threw
  initialPageSkipped,      \* per initialize call so far: the initialPageSkipped of its closure
  pages,                   \* per destination: the initialPageview of its options, the wrappers of its page, its page calls
  callbacks,               \* per function given to ready(fn): where it waits, its calls
  events,                  \* the method-named events of the last remembered facade call
  metrics                  \* the Metrics object: its options, its queue, its last call

vars == <<Integrations, _integrations, initializeOptions, failedInitializations,
          _readied, initialized, readyCallCount, integrationCount, readyEmits,
          inst, orphans, initLog, _sourceMiddlewares, _integrationMiddlewares,
          _destinationMiddlewares, nextMw, log, tasks, run, user, groupEntity, sent,
          trial, entity, store, did, raised, initialPageSkipped, pages, callbacks, events, metrics>>

regVars == <<Integrations, _sourceMiddlewares, _integrationMiddlewares,
             _destinationMiddlewares, nextMw>>
initVars == <<_integrations, initializeOptions, failedInitializations, _readied,
              initialized, readyCallCount, integrationCount, readyEmits,
              inst, orphans, initLog>>
callVars == <<log, tasks, run>>
msgVars == <<user, groupEntity, sent>>
pageVars == <<initialPageSkipped, pages>>
quietVars == <<trial, entity, store, did, raised, pageVars, metrics>>
unitVars == <<quietVars, callbacks, events>>

(***************************************************************************)
(* Bounds and input sets                                                   *)
(***************************************************************************)
MaxMw == 2
MaxInits == 2
MaxTasks == 1
MaxPages == 3
MaxFns == 2
MaxQueued == 3

DestNames == {"A", "B"}
Keys == DestNames \cup {"All"}
Methods == {"identify", "track", "page", "group", "alias"}

EmptyMap == [k \in {} |-> TRUE]
Only(k, v) == [x \in {k} |-> v]

\* {...a, ...b}
Merge(a, b) ==
  [k \in (DOMAIN a) \cup (DOMAIN b) |-> IF k \in DOMAIN b THEN b[k] ELSE a[k]]

\* options.integrations of initialize
InitIntegrations ==
  { Only("A", FALSE), Merge(Only("All", FALSE), Only("A", TRUE)) }

\* options.integrations of one facade call
CallIntegrations == { EmptyMap, Only("A", TRUE), Only("B", FALSE) }

\* the options of initialize: none, or options.integrations; plan is the event
\* names options.plan.track gives enabled: false
NoOptions == [hasIntegrations |-> FALSE, integrations |-> EmptyMap, plan |-> {}]
InitializeInputs ==
  { NoOptions } \cup { [NoOptions EXCEPT !.hasIntegrations = TRUE, !.integrations = m]
                       : m \in InitIntegrations }

\* the options of initialize, with or without a tracking plan
PlanInputs == InitializeInputs \cup { [NoOptions EXCEPT !.plan = {"Clicked"}] }

\* the settings of initialize: the keys in the caller's order
Settings == { <<"A">>, <<"A", "B">>, <<"B", "A">> }

Range(s) == { s[i] : i \in 1..Len(s) }

(***************************************************************************)
(* Envelopes                                                               *)
(***************************************************************************)
Null == 0
Envelope(integrations) == [integrations |-> integrations, marks |-> {}]

\* the facade itself where the code makes a copy of it
FacadeAlias(heap, ref) == <<heap, ref>>

\* extend(true, new Facade({}), facade): a new object with the same content
FacadeCopy(heap, ref) == <<Append(heap, heap[ref]), Len(heap) + 1>>

\* a destination is enabled unless the map names it with false
enabledUnlessNamed(integrations, name) ==
  IF name \in DOMAIN integrations THEN integrations[name] ELSE TRUE

\* facade.enabled(name) of segmentio-facade
enabled(integrations, name) ==
  LET allEnabled == IF "All" \in DOMAIN integrations THEN integrations["All"] ELSE TRUE
  IN  IF name \in DOMAIN integrations THEN integrations[name] ELSE allEnabled

(***************************************************************************)
(* The middleware chain                                                    *)
(***************************************************************************)
MwKinds == {"next", "replace", "drop", "throw", "stall", "async"}

ChainResult(t, heap, ref, k) ==
  [t |-> t, heap |-> heap, ref |-> ref, k |-> k, ran |-> <<>>]

\* middleware mw ran before what led to the results rs
ranFirst(mw, rs) == { [r EXCEPT !.ran = <<mw>> \o @] : r \in rs }

\* the payload after middleware k of the chain has marked it, in place
Mutated(heap, ref, tag) == [heap EXCEPT ![ref].marks = @ \cup {tag}]

\* The results applyMiddlewares can have from middleware k on, for payload ref:
\* "done" (the callback is called with ref), "drop" (the callback is called with
\* null), "throw", "stall" (no callback ever), "async" (middleware k - 1 returned
\* and calls next later; the chain resumes at k); ran is the middlewares that
\* ran, in the order they ran.
RECURSIVE executeChain(_, _, _, _, _, _)
executeChain(chain, k, ctx, heap, ref, mayDefer) ==
  IF k > Len(chain)
  THEN { ChainResult("done", heap, ref, k) }
  ELSE LET tag == <<chain[k], ctx>>
           replaced == Append(heap, [heap[ref] EXCEPT !.marks = @ \cup {tag}])
       IN  ranFirst(chain[k], UNION {
             CASE kind = "next"    -> executeChain(chain, k + 1, ctx, Mutated(heap, ref, tag), ref, mayDefer)
               [] kind = "replace" -> executeChain(chain, k + 1, ctx, replaced, Len(replaced), mayDefer)
               [] kind = "drop"    -> { ChainResult("drop", heap, Null, k) }
               [] kind = "throw"   -> { ChainResult("throw", heap, Null, k) }
               [] kind = "stall"   -> { ChainResult("stall", heap, Null, k) }
               [] kind = "async"   -> IF mayDefer
                                      THEN { ChainResult("async", heap, ref, k + 1) }
                                      ELSE {}
             : kind \in MwKinds })

(***************************************************************************)
(* Dispatch: Analytics.prototype._invoke                                   *)
(*                                                                         *)
(* A dispatch state s is what one synchronous run has done so far: the     *)
(* heap, the per-destination entries of the log, the deferred callbacks    *)
(* and whether an exception escaped every try block.                       *)
(***************************************************************************)
NoMarks == {}
NoEntry ==
  [st |-> "none", at |-> "-", n |-> 0, err |-> "none", dst |-> FALSE,
   intOut |-> NoMarks, dstIn |-> NoMarks, made |-> NoMarks, recv |-> NoMarks,
   stages |-> <<>>, intRan |-> <<>>, dstRan |-> <<>>]

Task(stage, name, chain, k, heap, fc, cur) ==
  [stage |-> stage, name |-> name, chain |-> chain, k |-> k,
   fcv |-> heap[fc], curv |-> heap[cur], same |-> (fc = cur)]

mayDefer(s) == Cardinality(s.tasks) < MaxTasks

\* catch (e) of the try around one destination's chains: log and go on
catchIntegrationError(s, name) == [s EXCEPT !.d[name].err = "caught"]

\* an exception thrown while destination `name` is being processed
onThrow(s, name, try) ==
  IF try
  THEN catchIntegrationError(s, name)
  ELSE [s EXCEPT !.d[name].err = "uncaught", !.uncaught = TRUE]

\* the changes the middlewares made while they processed destination `name`
changesOf(heap, name) ==
  { t \in UNION { heap[i].marks : i \in 1..Len(heap) } : t[2] = name }

\* the middlewares of r ran for destination `name` in the chain of `stage`
ranIn(s, name, stage, r) ==
  IF stage = "int"
  THEN [s EXCEPT !.d[name].intRan = @ \o r.ran]
  ELSE [s EXCEPT !.d[name].dstRan = @ \o r.ran]

\* the chain of `stage` called its callback with a payload for destination `name`
stageDone(s, name, stage) == [s EXCEPT !.d[name].stages = Append(@, stage)]

\* integration.invoke.call(integration, method, result): the handler returns or throws
invokeHandler(s, name, ref, try) ==
  LET called == [stageDone(s, name, "handler") EXCEPT
                          !.d[name].st = "invoked", !.d[name].at = "handler",
                          !.d[name].n = @ + 1, !.d[name].recv = s.heap[ref].marks,
                          !.d[name].made = changesOf(s.heap, name)]
  IN  { called, onThrow(called, name, try) }

\* a callback without the null check: the handler is invoked whatever the chain did
chainEndedInvoked(s, name, stage, chain, r, fc, try) ==
  [stageDone(ranIn(s, name, stage, r), name, "handler") EXCEPT
     !.d[name].st = "invoked", !.d[name].at = "handler", !.d[name].n = @ + 1]

\* what a chain's ending other than "done" does to destination `name`
chainEnded(s, name, stage, chain, r, fc, try) ==
  LET s0 == ranIn(s, name, stage, r)
      s1 == [s0 EXCEPT !.heap = r.heap, !.d[name].at = stage,
                      !.d[name].made = changesOf(r.heap, name)]
  IN  CASE r.t = "drop"  -> [s1 EXCEPT !.d[name].st = "dropped"]
        [] r.t = "throw" -> onThrow([s1 EXCEPT !.d[name].st = "threw"], name, try)
        [] r.t = "stall" -> [s1 EXCEPT !.d[name].st = "stalled"]
        [] r.t = "async" ->
             [s1 EXCEPT !.d[name].st = "pending",
                        !.tasks = @ \cup {Task(stage, name, chain, r.k, r.heap, fc, r.ref)}]

\* the envelope the destination chain is applied to, given the facade copy and the
\* result of the integration chain
destinationChainInput(facadeCopy, result) == facadeCopy

\* the callback of the destination chain
destinationCallback(s, name, chain, r, fc, try) ==
  IF r.t = "done"
  THEN invokeHandler([stageDone(ranIn(s, name, "dst", r), name, "dst") EXCEPT !.heap = r.heap],
                     name, r.ref, try)
  ELSE { chainEnded(s, name, "dst", chain, r, fc, try) }

\* the callback of the integration chain
integrationCallback(s, name, chain, r, fc, try) ==
  IF r.t # "done"
  THEN { chainEnded(s, name, "int", chain, r, fc, try) }
  ELSE LET s1 == [stageDone(ranIn(s, name, "int", r), name, "int") EXCEPT
                    !.heap = r.heap, !.d[name].intOut = r.heap[r.ref].marks]
           dchain == _destinationMiddlewares[name]
           input == destinationChainInput(fc, r.ref)
           s2 == [s1 EXCEPT !.d[name].dst = TRUE, !.d[name].dstIn = s1.heap[input].marks]
       IN  IF Len(dchain) > 0
           THEN UNION { destinationCallback(s2, name, dchain, r2, input, try)
                        : r2 \in executeChain(dchain, 1, name, s2.heap, input, mayDefer(s2)) }
           ELSE invokeHandler(s1, name, r.ref, try)

\* a test that finds no destination failed
failedInitializationNever(name) == FALSE

\* failedInitializations.indexOf(name) >= 0
failedInitialization(name) == name \in Range(failedInitializations)

\* the body of the forEach of applyIntegrationMiddlewares for one destination
applyIntegration(s, name, facade) ==
  LET c == FacadeCopy(s.heap, facade)
      s1 == [s EXCEPT !.heap = c[1]]
      facadeCopy == c[2]
      chain == _integrationMiddlewares
  IN  IF ~enabled(s1.heap[facadeCopy].integrations, name)
      THEN { [s1 EXCEPT !.d[name].st = "disabled"] }
      ELSE IF failedInitialization(name)
      THEN { [s1 EXCEPT !.d[name].st = "failedInit"] }
      ELSE UNION { integrationCallback(s1, name, chain, r, facadeCopy, TRUE)
                   : r \in executeChain(chain, 1, name, s1.heap, facadeCopy, mayDefer(s1)) }

\* a source callback without the null check: it goes on with the last envelope
sourceDroppedIgnored(s) ==
  { [s EXCEPT !.src = "dropped", !.emits = @ + 1, !.start = Len(s.heap)] }

\* the source chain dropped the payload: if (result === null) return
sourceDropped(s) == { [s EXCEPT !.src = "dropped"] }

\* 'invoke' emitted once for every instantiated destination
emitInvokePerDestination(s) == [s EXCEPT !.emits = @ + Len(_integrations)]

\* self.emit('invoke', result)
emitInvoke(s) == [s EXCEPT !.emits = @ + 1]

\* the callback of the source chain; on "done" it emits 'invoke' and calls
\* applyIntegrationMiddlewares(result): start is the facade the forEach begins with
sourceCallback(s, chain, r, try) ==
  LET s1 == [s EXCEPT !.heap = r.heap, !.srcRan = @ \o r.ran]
  IN  CASE r.t = "drop"  -> sourceDropped(s1)
        [] r.t = "throw" -> { IF try THEN [s1 EXCEPT !.src = "caught"]
                                     ELSE [s1 EXCEPT !.src = "threw", !.uncaught = TRUE] }
        [] r.t = "stall" -> { [s1 EXCEPT !.src = "stalled"] }
        [] r.t = "async" ->
             { [s1 EXCEPT !.src = "pending",
                          !.tasks = @ \cup {Task("src", "src", chain, r.k, r.heap, r.ref, r.ref)}] }
        [] r.t = "done"  ->
             { [emitInvoke(s1) EXCEPT !.src = "passed",
                          !.res = r.heap[r.ref].marks, !.start = r.ref] }

\* _invoke(method, facade) up to the callback of the source chain
invoke(msg) ==
  LET c == FacadeCopy(<<msg>>, 1)
      s0 == [heap |-> c[1], d |-> [n \in DestNames |-> NoEntry], tasks |-> {},
             uncaught |-> FALSE, srcRan |-> <<>>,
             src |-> "none", emits |-> 0, res |-> NoMarks, start |-> Null]
      chain == _sourceMiddlewares
  IN  UNION { sourceCallback(s0, chain, r, TRUE)
              : r \in executeChain(chain, 1, "src", s0.heap, c[2], mayDefer(s0)) }

\* the log entry of a finished run
Logged(s, orig) ==
  [active |-> TRUE, src |-> s.src, srcRan |-> s.srcRan,
   invokeEmits |-> s.emits, res |-> s.res, orig |-> orig, d |-> s.d,
   uncaught |-> s.uncaught]

NoLog ==
  [active |-> FALSE, src |-> "none", srcRan |-> <<>>, invokeEmits |-> 0,
   res |-> NoMarks, orig |-> NoMarks, d |-> [n \in DestNames |-> NoEntry],
   uncaught |-> FALSE]

NoRun == [i |-> 0, facade |-> Envelope(EmptyMap)]

\* applyIntegrationMiddlewares(facade) begins: Object.keys(self._integrations).forEach
startRun(s) ==
  IF s.start # Null /\ Len(_integrations) > 0
  THEN [i |-> 1, facade |-> s.heap[s.start]]
  ELSE NoRun

\* a deferred callback is called: the chain goes on from where it stopped
resume(t) ==
  LET heap == IF t.same THEN <<t.fcv>> ELSE <<t.fcv, t.curv>>
      cur == IF t.same THEN 1 ELSE 2
      s0 == [heap |-> heap, d |-> log.d, tasks |-> tasks \ {t},
             uncaught |-> log.uncaught, srcRan |-> log.srcRan,
             src |-> log.src, emits |-> log.invokeEmits, res |-> log.res, start |-> Null]
      rs == executeChain(t.chain, t.k, t.name, heap, cur, mayDefer(s0))
  IN  CASE t.stage = "src" -> UNION { sourceCallback(s0, t.chain, r, FALSE) : r \in rs }
        [] t.stage = "int" -> UNION { integrationCallback(s0, t.name, t.chain, r, 1, FALSE) : r \in rs }
        [] t.stage = "dst" -> UNION { destinationCallback(s0, t.name, t.chain, r, 1, FALSE) : r \in rs }

(***************************************************************************)
(* Analytics.initialize                                                    *)
(*                                                                         *)
(* A readiness state rs is what initialize has done so far to the ready    *)
(* closures, the instances' listeners and failedInitializations.           *)
(***************************************************************************)
Closures == 1..MaxInits
InitOutcomes == {"ready", "later", "throw", "readyThrow"}
NoInstance == [listeners |-> {}, pending |-> 0]
NoInitLog == [called |-> {}, thrown |-> {}, threw |-> FALSE, c |-> 0]

\* "Don't load disabled integrations"
disabledAtInitialize(options, name) ==
  /\ options.hasIntegrations
  /\ \/ (name \in DOMAIN options.integrations /\ options.integrations[name] = FALSE)
     \/ /\ "All" \in DOMAIN options.integrations
        /\ options.integrations["All"] = FALSE
        /\ ~(name \in DOMAIN options.integrations /\ options.integrations[name])

\* this.add(integration) for every loaded name: a new key goes last
added(ints, loaded) ==
  ints \o SelectSeq(loaded, LAMBDA n : n \notin Range(ints))

\* the comparison of the ready closure with > for >=
readyReachedStrict(count, total) == count > total

\* if (readyCallCount >= integrationCount)
readyReached(count, total) == count >= total

\* the ready closures in L are called once each
ready(rs, L) ==
  LET count == [c \in Closures |-> IF c \in L THEN rs.count[c] + 1 ELSE rs.count[c]]
      hit == { c \in L : readyReached(count[c], rs.total[c]) }
  IN  [rs EXCEPT !.count = count,
                 !.emits = [c \in Closures |-> IF c \in hit THEN @[c] + 1 ELSE @[c]],
                 !.readied = @ \/ hit # {}]

\* the listeners an emit of 'ready' leaves on an instance that had L: once() removes them
onceListeners(L) == {}

\* the instance of `name` emits 'ready'
emitReady(rs, name) ==
  LET L == rs.inst[name].listeners
  IN  ready([rs EXCEPT !.inst[name].listeners = onceListeners(L)], L)

\* integration.initialize() without the try block: the exception unwinds initialize
rethrowInitializeError(rs, name) == [rs EXCEPT !.ilog.threw = TRUE]

\* catch (e) around integration.initialize()
catchInitializeError(rs, name) ==
  emitReady([rs EXCEPT !.failed = Append(@, name)], name)

\* the body of the forEach over the integrations, for one of them
initializeIntegration(rs, name, c, outcome) ==
  LET rs1 == [rs EXCEPT !.inst[name].listeners = @ \cup {c}, !.ilog.called = @ \cup {name}]
      thrown(r) == [r EXCEPT !.ilog.thrown = @ \cup {name}]
  IN  CASE outcome = "ready"      -> emitReady(rs1, name)
        [] outcome = "later"      -> [rs1 EXCEPT !.inst[name].pending = @ + 1]
        [] outcome = "throw"      -> catchInitializeError(thrown(rs1), name)
        [] outcome = "readyThrow" -> catchInitializeError(thrown(emitReady(rs1, name)), name)

RECURSIVE initializeIntegrations(_, _, _, _, _)
initializeIntegrations(rs, ints, i, c, o) ==
  IF i > Len(ints) \/ rs.ilog.threw
  THEN rs
  ELSE initializeIntegrations(initializeIntegration(rs, ints[i], c, o[ints[i]]),
                              ints, i + 1, c, o)

(***************************************************************************)
(* Metrics.  A metric name is the sequence of its parts, "error" one of    *)
(* them; Math.random() and sampleRate are in hundredths.                   *)
(***************************************************************************)
DefaultSampleRate == 0
DefaultMaxQueueSize == 20

\* the names: 'analytics_js.invoke', 'analytics_js.invoke.error', 'error'
MetricNames == { <<"invoke">>, <<"invoke", "error">>, <<"error">> }

\* the options given to Metrics.options; -1 stands for a key that is left out
MetricsOptions ==
  [sampleRate : {-1, 100}, maxQueueSize : {-1} \cup 1..MaxQueued]

\* the values Math.random() returns
Randoms == {0, 50}

\* metric.indexOf('error'): the position of the first 'error', -1 without one
indexOfError(metric) ==
  IF \E k \in 1..Len(metric) : metric[k] = "error"
  THEN (CHOOSE k \in 1..Len(metric) :
          metric[k] = "error" /\ \A j \in 1..(k - 1) : metric[j] # "error") - 1
  ELSE -1

NoMetricsCall == [op |-> "none", metric |-> <<>>, pushed |-> FALSE]

\* new Metrics()
NewMetrics ==
  [sampleRate |-> DefaultSampleRate, maxQueueSize |-> DefaultMaxQueueSize,
   queue |-> <<>>, intervals |-> FALSE, last |-> NoMetricsCall]

\* Metrics.flush()
flushed(m) == IF Len(m.queue) <= 0 THEN m ELSE [m EXCEPT !.queue = <<>>]

\* Metrics.options(options)
optionsSet(m, o) ==
  LET rate == IF o.sampleRate = -1 THEN DefaultSampleRate ELSE o.sampleRate
      size == IF o.maxQueueSize = -1 THEN DefaultMaxQueueSize ELSE o.maxQueueSize
  IN  [m EXCEPT !.sampleRate = rate, !.maxQueueSize = size,
                !.intervals = @ \/ rate > 0,
                !.last = [NoMetricsCall EXCEPT !.op = "options"]]

\* Metrics.increment(metric, tags) when Math.random() returns `random`
incremented(m, metric, random) ==
  LET call == [op |-> "increment", metric |-> metric, pushed |-> FALSE]
  IN  IF random > m.sampleRate THEN [m EXCEPT !.last = call]
      ELSE IF Len(m.queue) >= m.maxQueueSize THEN [m EXCEPT !.last = call]
      ELSE LET pushed == [m EXCEPT !.queue = Append(@, metric),
                                   !.last = [call EXCEPT !.pushed = TRUE]]
           IN  IF indexOfError(metric) > 0 THEN flushed(pushed) ELSE pushed

\* no facade call is remembered; open tells that the call is inside its _invoke
NoEvents == [method |-> "none", n |-> 0, open |-> FALSE]

\* a function that was not given to ready(fn) yet; early tells that it was
\* called while a destination of the last initialize had not signalled
NoCallback == [st |-> "none", n |-> 0, early |-> FALSE]

\* fn is called
called(cb, early) == [st |-> "called", n |-> cb.n + 1, early |-> early]

\* this.emit('ready'), where it is emitted: the listeners of once('ready', fn)
\* are called and removed
emitFacadeReady(cbs, emitted, early) ==
  [i \in DOMAIN cbs |->
     IF emitted /\ cbs[i].st = "listening" THEN called(cbs[i], early) ELSE cbs[i]]

\* ready(fn): nextTick(fn) where the facade is ready, once('ready', fn) where not
readyFn(cbs, i, readied) ==
  [cbs EXCEPT ![i].st = IF readied THEN "queued" ELSE "listening"]

\* the instances a replaced instance leaves behind when it still owes a ready signal
orphaned(orph, old) ==
  IF old.pending > 0 /\ old.listeners # {}
  THEN [orph EXCEPT ![old.listeners] = @ + 1]
  ELSE orph

RECURSIVE orphanedAll(_, _, _)
orphanedAll(orph, names, insts) ==
  IF names = {}
  THEN orph
  ELSE LET n == CHOOSE x \in names : TRUE
       IN  orphanedAll(orphaned(orph, insts[n]), names \ {n}, insts)

(***************************************************************************)
(* Messages: the arguments of a facade call, the user and group entities,  *)
(* normalize.                                                              *)
(*                                                                         *)
(* A value that may be undefined or null is [is, v]; v counts when is is   *)
(* "object".  A string argument that is left out is "undefined".  A uuid   *)
(* is a positive number, an anonymous id the caller chose a negative one,  *)
(* 0 is no anonymous id.  The keys of the model differ in more than their  *)
(* case, and the calls carry no providers.                                 *)
(***************************************************************************)
Undefined(v) == [is |-> "undefined", v |-> v]
NullValue(v) == [is |-> "null", v |-> v]
Object(v) == [is |-> "object", v |-> v]

\* a default that replaces undefined alone
nullishUndefined(x, d) == IF x.is = "undefined" THEN d ELSE x

\* x ?? d
nullish(x, d) == IF x.is \in {"undefined", "null"} THEN d ELSE x

\* pageDefaults()
PageKeys == {"path", "referrer", "search", "title", "url"}
pageDefaults == [k \in PageKeys |-> "default"]

\* the content of options.context: the keys beside page, and page
NoContext == [extra |-> {}, page |-> Undefined(EmptyMap)]

\* the content of options: integrations, context, anonymousId and the other
\* keys (top), here keys that name a destination
NoCallOptions ==
  [integrations |-> Undefined(EmptyMap), context |-> Undefined(NoContext),
   top |-> EmptyMap, anonymousId |-> 0]

\* the keys of the message a facade method builds, beside options
NoBody ==
  [event |-> "undefined", properties |-> "undefined", userId |-> "undefined",
   traits |-> "undefined", groupId |-> "undefined", previousId |-> "undefined"]

\* the arguments of a facade call
Call(id, second, options) == [id |-> id, second |-> second, options |-> options]

\* options with options.integrations alone
IntegrationsOnly(ci) == Object([NoCallOptions EXCEPT !.integrations = Object(ci)])

\* the calls of the dispatch specifications: no id, options.integrations alone
PlainCalls ==
  { Call("undefined", "undefined", IntegrationsOnly(ci)) : ci \in CallIntegrations }

\* String.prototype.toLowerCase on the key names of the model
toLowerCase(s) ==
  CASE s = "A" -> "a"
    [] s = "B" -> "b"
    [] s \in {"All", "ALL"} -> "all"
    [] OTHER -> s

\* a match of the very name alone
integrationExact(list, name) == name \in Range(list) \/ name = "All"

\* function integration(name) of normalize
integration(list, name) ==
  \/ name \in Range(list)
  \/ toLowerCase(name) = "all"
  \/ toLowerCase(name) \in { toLowerCase(x) : x \in Range(list) }

\* a messageId made of the message alone
messageIdOfContent(msg, uuid) == <<"ajs-", msg>>

\* `ajs-${SparkMD5.hash(JSON.stringify(msg) + uuid())}`: the hash is taken to
\* tell apart any two of its inputs
messageIdOf(msg, uuid) == <<"ajs-", msg, uuid>>

\* normalize(msg, list) of lib/messages, where uuid() gives `uuid`
normalize(msg, list, uuid) ==
  LET opts == nullish(msg.options, Object(NoCallOptions)).v
      integrations == nullish(opts.integrations, Object(EmptyMap))
      context == nullish(opts.context, Object(NoContext))
      lifted == { key \in DOMAIN opts.top : integration(list, key) }
      own == [key \in (DOMAIN integrations.v) \cup lifted |->
                IF key \in DOMAIN integrations.v
                THEN integrations.v[key] ELSE opts.top[key]]
      rest == (DOMAIN opts.top) \ lifted
  IN  [messageId |-> messageIdOf(msg, uuid),
       integrations |-> [integrations EXCEPT !.v = own],
       context |-> [context EXCEPT !.v.extra = @ \cup rest],
       anonymousId |-> opts.anonymousId,
       body |-> msg.body]

(***************************************************************************)
(* normalize of lib/messages on options of any shape.  The values of the   *)
(* keys are strings that tell where a value came from: "true" and "false"  *)
(* are booleans, "{}" is an object, any other is a string.                 *)
(***************************************************************************)
isObject(v) == v = "{}"
isBoolean(v) == v \in {"true", "false"}

\* a list that holds the two maps alone
TopLevelMaps == {"integrations", "context"}

TOP_LEVEL_PROPERTIES == {"integrations", "anonymousId", "timestamp", "context"}

\* options: integrations, providers and context, and the other keys (rest)
NoDraft ==
  [integrations |-> Undefined(EmptyMap), providers |-> Undefined(EmptyMap),
   context |-> Undefined(EmptyMap), rest |-> EmptyMap]

\* a provider entry sets the value whatever integrations holds
providerSetsAlways(integrations, providers, key) == TRUE

\* the two returns of the providers loop: integrations holds an object for the
\* key, or holds a value and the provider's is boolean
providerSets(integrations, providers, key) ==
  /\ ~(key \in DOMAIN integrations /\ isObject(integrations[key]))
  /\ ~(key \in DOMAIN integrations /\ isBoolean(providers[key]))

\* normalize(msg, list): ret without messageId and the keys of msg; top is the
\* top-level keys copied from options beside integrations and context; opts is
\* msg.options as the call leaves that object: without the keys it deleted,
\* with what it wrote to the integrations and the context the object holds
normalizeOptions(options, list) ==
  LET opts == nullish(options, Object(NoDraft)).v
      integrations == nullish(opts.integrations, Object(EmptyMap)).v
      providers == nullish(opts.providers, Object(EmptyMap)).v
      context == nullish(opts.context, Object(EmptyMap)).v
      lifted == { key \in DOMAIN opts.rest : integration(list, key) }
      i1 == [key \in (DOMAIN integrations) \cup lifted |->
               IF key \in DOMAIN integrations THEN integrations[key] ELSE opts.rest[key]]
      set == { key \in DOMAIN providers :
                 integration(list, key) /\ providerSets(i1, providers, key) }
      i2 == [key \in (DOMAIN i1) \cup set |->
               IF key \in set THEN providers[key] ELSE i1[key]]
      named == { key \in {"integrations", "providers", "context"} :
                   \/ key = "integrations" /\ opts.integrations.is # "undefined"
                   \/ key = "providers" /\ opts.providers.is # "undefined"
                   \/ key = "context" /\ opts.context.is # "undefined" }
      \* Object.keys(opts) after the first loop and delete opts.providers
      remaining == (((DOMAIN opts.rest) \ lifted) \cup named) \ {"providers"}
      value(key) == IF key \in DOMAIN opts.rest THEN opts.rest[key] ELSE "{}"
      toContext == remaining \ TOP_LEVEL_PROPERTIES
      c1 == [key \in (DOMAIN context) \cup toContext |->
               IF key \in toContext THEN value(key) ELSE context[key]]
  IN  [integrations |-> i2,
       context |-> c1,
       \* ret.integrations and ret.context are assigned after the loop
       top |-> [key \in (remaining \cap TOP_LEVEL_PROPERTIES) \ {"integrations", "context"} |->
                  value(key)],
       opts |-> IF options.is # "object" THEN options
                ELSE Object([integrations |-> IF opts.integrations.is = "object"
                                              THEN Object(i2) ELSE opts.integrations,
                             providers |-> Undefined(EmptyMap),
                             context |-> IF opts.context.is = "object"
                                         THEN Object(c1) ELSE opts.context,
                             rest |-> [key \in (DOMAIN opts.rest) \ lifted |-> opts.rest[key]]])]

\* the inputs of the normalize specification: the lists, and the options
NormalizeLists == { <<"A">>, <<"A", "B">> }
Drafts ==
  LET RestKeys == {"a", "ALL", "B", "ip", "timestamp", "anonymousId"}
      DraftIntegrations ==
        { Undefined(EmptyMap), NullValue(EmptyMap), Object(EmptyMap),
          Object(Only("a", "i")), Object(Merge(Only("a", "{}"), Only("B", "i"))) }
      DraftProviders ==
        { Undefined(EmptyMap),
          Object(Merge(Only("a", "true"), Only("x", "p"))),
          Object(Merge(Merge(Only("a", "p"), Only("B", "p")), Only("ALL", "false"))) }
      DraftContexts ==
        { Undefined(EmptyMap), Object(Merge(Only("ip", "c"), Only("locale", "c"))) }
  IN  { Undefined(NoDraft) } \cup
      { Object([integrations |-> i, providers |-> p, context |-> c,
                rest |-> [key \in keys |-> "t"]])
        : i \in DraftIntegrations, p \in DraftProviders, c \in DraftContexts,
          keys \in SUBSET RestKeys }

NoResult ==
  [integrations |-> EmptyMap, context |-> EmptyMap, top |-> EmptyMap,
   opts |-> Undefined(NoDraft)]

\* the options and the list of a call of normalize, what it returned, and what
\* a second call with the same options object returned
NoTrial ==
  [options |-> Undefined(NoDraft), list |-> <<>>, done |-> FALSE, ret |-> NoResult,
   again |-> FALSE, next |-> NoResult]

(***************************************************************************)
(* Entity, User, Group and their Store (lib/entity).  An id is a string,   *)
(* "null" where there is none; traits are a map; an anonymous id is an     *)
(* integer: 0 is none, a positive one is a uuid, -1 is one the caller      *)
(* chose, -2 is the one of the legacy cookie.                              *)
(***************************************************************************)
\* what a store returns for a key it does not hold
NoValue(key) ==
  CASE key = "traits" -> Undefined(EmptyMap)
    [] key = "anon" -> 0
    [] OTHER -> "null"

\* if (value), if (!traits), if (anonymousId)
truthy(key, value) == value # NoValue(key)

\* new Store(options, useLocalStorage) in a browser where cookies work or do
\* not, without stored values; sio is the raw cookie '_sio'
NewStore(cookies, useLocalStorage, sio) ==
  [cookies |-> cookies, localEnabled |-> useLocalStorage, sio |-> sio,
   cookie |-> [id |-> "null", anon |-> 0],
   local |-> [id |-> "null", traits |-> Undefined(EmptyMap), anon |-> 0],
   memory |-> [id |-> "null", traits |-> Undefined(EmptyMap)]]

\* set and remove of Memory: the value is kept under the key
memoryWrite(s, key, value) == [s EXCEPT !.memory[key] = value]

\* get of Memory
memoryRead(s, key) == s.memory[key]

\* set and remove of the store `which`.  Cookie: a value of null removes the
\* cookie, and nothing is kept where cookies do not work; Store (local): a value
\* of null leaves an item that reads as null, and nothing is kept where it is
\* not enabled
storeWrite(s, which, key, value) ==
  CASE which = "cookie" -> IF s.cookies THEN [s EXCEPT !.cookie[key] = value] ELSE s
    [] which = "local" -> IF s.localEnabled THEN [s EXCEPT !.local[key] = value] ELSE s
    [] which = "memory" -> memoryWrite(s, key, value)

\* get of the store `which`
storeRead(s, which, key) ==
  CASE which = "cookie" -> s.cookie[key]
    [] which = "local" -> IF s.localEnabled THEN s.local[key] ELSE NoValue(key)
    [] which = "memory" -> memoryRead(s, key)

\* Store.getPrimaryStoreForKey
getPrimaryStoreForKey(s, key) ==
  CASE key = "id" -> IF s.cookies THEN "cookie"
                     ELSE IF s.localEnabled THEN "local" ELSE "memory"
    [] key = "traits" -> IF s.localEnabled THEN "local" ELSE "memory"
    [] key = "anon" -> "cookie"
    [] OTHER -> "memory"

\* a get that reads the primary store of the key only
storeGetPrimary(s, key) == storeRead(s, getPrimaryStoreForKey(s, key), key)

\* Store.get
storeGet(s, key) ==
  LET value == storeRead(s, getPrimaryStoreForKey(s, key), key)
  IN  IF truthy(key, value) THEN value
      ELSE IF s.localEnabled THEN storeRead(s, "local", key) ELSE value

\* Store.remove
storeRemove(s, key) ==
  LET s1 == storeWrite(s, getPrimaryStoreForKey(s, key), key, NoValue(key))
  IN  IF s.localEnabled THEN storeWrite(s1, "local", key, NoValue(key)) ELSE s1

\* Store.set
storeSet(s, key, value) ==
  LET replicate == key # "traits" /\ s.localEnabled
      s1 == storeWrite(s, getPrimaryStoreForKey(s, key), key, value)
  IN  IF ~replicate THEN s1 ELSE storeWrite(s1, "local", key, value)

\* new User(options) and new Group(options); defaults is the persist of the
\* static defaults of the class, options.shared tells that this._options is
\* that very object
NewEntity(kind) ==
  [kind |-> kind, _id |-> "null", _traits |-> EmptyMap,
   options |-> [shared |-> FALSE, persist |-> TRUE], defaults |-> TRUE]

\* an entity and its store
With(e, s) == [e |-> e, s |-> s]

\* get id of Entity
idGet(w) ==
  IF ~w.e.options.persist /\ w.e._id # "null" THEN w.e._id ELSE storeGet(w.s, "id")

\* set id of Entity
entityIdSet(w, id) ==
  With([w.e EXCEPT !._id = id],
       IF w.e.options.persist THEN storeSet(w.s, "id", id) ELSE w.s)

\* get traits of Entity
traitsGet(w) ==
  LET traits == IF w.e.options.persist THEN storeGet(w.s, "traits") ELSE Object(w.e._traits)
  IN  IF ~truthy("traits", traits) THEN EmptyMap ELSE traits.v

\* set traits of Entity
traitsSet(w, traits) ==
  LET t == IF traits.is = "object" THEN traits.v ELSE EmptyMap
  IN  With([w.e EXCEPT !._traits = t],
           IF w.e.options.persist THEN storeSet(w.s, "traits", Object(t)) ELSE w.s)

\* User.anonymousId(anonymousId): set or, with null, remove
anonymousIdSet(s, value) == storeSet(s, "anon", value)

\* rawCookie('_sio').split('----')[0]
legacyAnonymousId(raw) == IF raw = "legacy----user" THEN -2 ELSE 0

\* User.anonymousId(): what it returns and the store after it
anonymousIdGet(s, uuid) ==
  LET stored == storeGet(s, "anon")
  IN  IF truthy("anon", stored)
      THEN [ret |-> stored, s |-> storeSet(s, "anon", stored)]
      ELSE IF s.sio # "null"
      THEN [ret |-> legacyAnonymousId(s.sio),
            \* store.remove('_sio') removes the key from the memory and from
            \* localStorage, which do not hold it
            s |-> storeSet(s, "anon", legacyAnonymousId(s.sio))]
      ELSE [ret |-> uuid, s |-> storeSet(s, "anon", uuid)]

\* set id of User
userIdSet(w, id) ==
  LET prev == idGet(w)
      w1 == entityIdSet(w, id)
  IN  IF prev = "null" \/ id = "null" THEN w1
      ELSE IF prev # id THEN With(w1.e, anonymousIdSet(w1.s, 0))
      ELSE w1

\* this.id = id
idSet(w, id) == IF w.e.kind = "user" THEN userIdSet(w, id) ELSE entityIdSet(w, id)

\* an identify that always extends the traits
identifyExtending(w, id, traits) ==
  LET w1 == IF id # "undefined" THEN idSet(w, id) ELSE w
  IN  traitsSet(w1, Object(Merge(traitsGet(w), nullish(traits, Object(EmptyMap)).v)))

\* Entity.identify(id, traits); an id of "undefined" is one not given
identifyEntity(w, id, traits) ==
  LET given == IF traits.is = "object" THEN traits.v ELSE EmptyMap
      current == idGet(w)
      t == IF current = "null" \/ current = id THEN Merge(traitsGet(w), given) ELSE given
      w1 == IF id # "undefined" THEN idSet(w, id) ELSE w
  IN  traitsSet(w1, Object(t))

\* Entity.logout()
entityLogout(w) ==
  LET w1 == idSet(w, "null")
      w2 == traitsSet(w1, Object(EmptyMap))
  IN  IF w2.e.options.persist
      THEN With(w2.e, storeRemove(storeRemove(w2.s, "id"), "traits"))
      ELSE w2

\* User.logout() and Group.logout(): this.options = the defaults of the class
logout(w) ==
  LET w1 == entityLogout(w)
      s == IF w.e.kind = "user" THEN anonymousIdSet(w1.s, 0) ELSE w1.s
  IN  With([w1.e EXCEPT !.options = [shared |-> TRUE, persist |-> w1.e.defaults]], s)

\* entity.options.persist = value
persistSet(e, value) ==
  [e EXCEPT !.options.persist = value,
            !.defaults = IF e.options.shared THEN value ELSE @]

\* the inputs of the entity specification
EntityIds == {"u1", "u2"}
TraitMaps == { Only("a", "1"), Merge(Only("a", "2"), Only("b", "2")) }

\* the last operation on the entity: its name, its arguments, what the getters
\* returned and the store held before it, what it returned
NoDid ==
  [op |-> "none", id |-> "null", traits |-> Undefined(EmptyMap),
   before |-> [id |-> "null", traits |-> EmptyMap, anon |-> 0], ret |-> 0]

\* the record of an operation on the entity and store of the state; of what
\* the getters returned before it, the record holds the keys of `kept`
Did(op, id, traits, ret, kept) ==
  [op |-> op, id |-> id, traits |-> traits,
   before |-> [id |-> IF "id" \in kept THEN idGet(With(entity, store)) ELSE "null",
               traits |-> IF "traits" \in kept THEN traitsGet(With(entity, store)) ELSE EmptyMap,
               anon |-> IF "anon" \in kept THEN storeGet(store, "anon") ELSE 0],
   ret |-> ret]

NoUser == [id |-> "null", traits |-> "{}", anonymousId |-> 0]
NoGroup == [id |-> "null", traits |-> "{}"]

\* assignIn(a, b) for traits of one name
assignIn(a, b) == IF b = "{}" THEN a ELSE b

\* set id of User: a new id after another one resets the anonymous id
setUserId(u, id) ==
  LET prev == u.id
      u1 == [u EXCEPT !.id = id]
  IN  IF prev = "null" \/ id = "null"
      THEN u1
      ELSE IF prev # id THEN [u1 EXCEPT !.anonymousId = 0] ELSE u1

\* set id of Entity
setEntityId(e, id) == [e EXCEPT !.id = id]

\* Entity.identify(id, traits); the id setter is that of User for the user
entityIdentify(e, id, traits, isUser) ==
  LET given == IF traits \in {"undefined", "null"} THEN "{}" ELSE traits
      current == e.id
      merged == IF current = "null" \/ current = id
                THEN assignIn(e.traits, given) ELSE given
      e1 == IF id \in {"undefined", "null"} THEN e
            ELSE IF isUser THEN setUserId(e, id) ELSE setEntityId(e, id)
  IN  [e1 EXCEPT !.traits = merged]

\* an anonymous id that is new at every call
anonymousIdNew(u, uuid) == [u EXCEPT !.anonymousId = uuid]

\* User.anonymousId(): the stored one, or a new uuid that is stored
anonymousId(u, uuid) ==
  IF u.anonymousId # 0 THEN u ELSE [u EXCEPT !.anonymousId = uuid]

\* User.logout()
userLogout(u) == NoUser

\* the uuids in use: the stored anonymous id and those of the envelopes `envelopes`
held(envelopes) ==
  { n \in {user.anonymousId}
            \cup { envelopes[i].msg.anonymousId : i \in 1..Len(envelopes) }
            \cup { envelopes[i].uuid : i \in 1..Len(envelopes) } : n > 0 }

\* uuid.v4(): a value no uuid in use has
fresh(used) ==
  CHOOSE n \in 1..(Cardinality(used) + 1) :
    n \notin used /\ \A m \in 1..(n - 1) : m \in used

\* a normalize that leaves the anonymous id of the options out of the store
anonymousIdOfOptionsIgnored(u, given) == u

\* if (msg.anonymousId) this.user.anonymousId(msg.anonymousId)
anonymousIdOfOptions(u, given) ==
  IF given # 0 THEN [u EXCEPT !.anonymousId = given] ELSE u

\* Analytics.normalize(message) for the user u, where the uuids `used` are in use
normalizeMessage(message, u, used) ==
  LET uuid == fresh(used)
      msg == normalize(message, _integrations, uuid)
      u1 == anonymousIdOfOptions(u, msg.anonymousId)
      u2 == anonymousId(u1, fresh(used \cup {uuid}))
      page == Merge(pageDefaults, nullish(msg.context.v.page, Object(EmptyMap)).v)
  IN  [msg |-> [msg EXCEPT !.anonymousId = u2.anonymousId,
                           !.context.v.page = Object(page)],
       uuid |-> uuid, user |-> u2]

\* page(): options.context.page = overrides, the defaults
pageOptions(options) ==
  LET o == IF options.is = "object" THEN options ELSE Object(NoCallOptions)
      c == IF o.v.context.is = "object" THEN o.v.context ELSE Object(NoContext)
  IN  [o EXCEPT !.v.context = [c EXCEPT !.v.page = Object(pageDefaults)]]

\* the message a facade method hands to normalize, and the entities after it
message(method, call) ==
  LET u == entityIdentify(user, call.id, call.second, TRUE)
      g == entityIdentify(groupEntity, call.id, call.second, FALSE)
      m(options, body) == [options |-> options, body |-> body]
  IN  CASE method = "identify" ->
             [message |-> m(call.options, [NoBody EXCEPT !.traits = u.traits, !.userId = u.id]),
              user |-> u, group |-> groupEntity]
        [] method = "group" ->
             [message |-> m(call.options, [NoBody EXCEPT !.traits = g.traits, !.groupId = g.id]),
              user |-> user, group |-> g]
        [] method = "track" ->
             [message |-> m(call.options, [NoBody EXCEPT !.event = call.id, !.properties = call.second]),
              user |-> user, group |-> groupEntity]
        [] method = "page" ->
             [message |-> m(pageOptions(call.options), [NoBody EXCEPT !.properties = "defs"]),
              user |-> user, group |-> groupEntity]
        [] method = "alias" ->
             [message |-> m(call.options, [NoBody EXCEPT !.userId = call.id, !.previousId = call.second]),
              user |-> user, group |-> groupEntity]

\* the options of the facade calls of the message specification
CallOptions ==
  { Undefined(NoCallOptions), NullValue(NoCallOptions),
    Object([NoCallOptions EXCEPT !.integrations = NullValue(EmptyMap),
                                 !.context = NullValue(NoContext)]),
    Object([NoCallOptions EXCEPT !.integrations = Object(Only("B", TRUE)),
                                 !.top = Merge(Only("A", FALSE), Only("B", FALSE)),
                                 !.context = Object([extra |-> {"ip"},
                                                     page |-> Object(Only("path", "custom"))])]) }

\* the first two arguments of the facade calls of the message specification
CallArguments(method) ==
  CASE method = "identify" -> {"undefined"} \X {"undefined"}
    [] method = "group" -> {"undefined"} \X {"undefined"}
    [] method = "track" -> {"Clicked"} \X {"{total}"}
    [] method = "page" -> {"undefined"} \X {"undefined"}
    [] method = "alias" -> {"u2"} \X {"undefined"}

MessageCalls(method) ==
  { Call(a[1], a[2], o) : a \in CallArguments(method), o \in CallOptions }

\* the envelopes that stay remembered beside a new one when `keep` are kept
earlier(keep) ==
  IF keep <= 1 THEN <<>>
  ELSE IF Len(sent) < keep THEN sent
  ELSE SubSeq(sent, Len(sent) - keep + 2, Len(sent))

\* the facade calls of the identity specification: a user id or none, options
\* left out or with an anonymous id of the caller
IdentityOptions ==
  { Undefined(NoCallOptions), Object([NoCallOptions EXCEPT !.anonymousId = -1]) }

IdentityArguments(method) ==
  CASE method = "identify" -> {"u1", "u2"} \X {"{plan}"}
    [] method = "group" -> {"g1"} \X {"undefined"}
    [] method = "track" -> {"Clicked"} \X {"undefined"}
    [] method = "page" -> {"undefined"} \X {"undefined"}
    [] method = "alias" -> {"u2"} \X {"u1"}

IdentityCalls(method) ==
  { Call(a[1], a[2], o) : a \in IdentityArguments(method), o \in IdentityOptions }

\* the last `keep` envelopes once e is handed to _invoke
remembered(keep, e) == IF keep = 0 THEN sent ELSE Append(earlier(keep), e)

(***************************************************************************)
(* The initial pageview: the wrappers initialize puts around the page of   *)
(* a destination.  A wrapper is the index of the initialize call whose     *)
(* closure holds its initialPageSkipped.  The handler of a destination is  *)
(* taken to call integration.page for a page call.                         *)
(***************************************************************************)
\* a destination that is not loaded; calls and handled count the page calls
\* since the last initialize: those that reached integration.page, and those
\* that reached the page of the destination itself
NoPage ==
  [initialPageview |-> "undefined", wraps |-> <<>>, calls |-> 0, handled |-> 0]

\* new Integration(clonedOpts) where opts.initialPageview is `own`
NewPage(own) == [NoPage EXCEPT !.initialPageview = own]

\* integration.page(): the wrappers from the outermost (k) inwards; a wrapper
\* whose initialPageSkipped is false sets it and returns
RECURSIVE callPage(_, _, _)
callPage(wraps, k, skipped) ==
  IF k = 0
  THEN [skipped |-> skipped, handled |-> 1]
  ELSE IF skipped[wraps[k]]
  THEN callPage(wraps, k - 1, skipped)
  ELSE [skipped |-> [skipped EXCEPT ![wraps[k]] = TRUE], handled |-> 0]

\* this.page(): the destinations from the i-th key of `ints` on receive a page call
RECURSIVE pageAll(_, _, _)
pageAll(pv, ints, i) ==
  IF i > Len(ints)
  THEN pv
  ELSE LET p == pv.pages[ints[i]]
           r == callPage(p.wraps, Len(p.wraps), pv.skipped)
       IN  pageAll([skipped |-> r.skipped,
                    pages |-> [pv.pages EXCEPT ![ints[i]].calls = @ + 1,
                                               ![ints[i]].handled = @ + r.handled]],
                   ints, i + 1)

\* the forEach of initialize over the keys of integrations: the page of a
\* destination whose options.initialPageview is false is wrapped where
\* options.initialPageview is set; c is the index of this initialize call
wrapPages(ps, ints, initialPageview, c) ==
  [n \in DestNames |->
     IF n \in Range(ints) /\ initialPageview /\ ps[n].initialPageview = "false"
     THEN [ps[n] EXCEPT !.wraps = Append(@, c)]
     ELSE ps[n]]

(***************************************************************************)
(* The state machine                                                       *)
(***************************************************************************)
\* Integration.prototype.name of the constructors; '' is a prototype without name
ConstructorNames == DestNames \cup {""}

\* no addIntegration yet
NoRaised == [given |-> "-", error |-> "none"]

\* addIntegration without the test of the name
addIntegrationUnchecked(registry, name) ==
  [Integrations |-> registry \cup {name}, error |-> "none"]

\* addIntegration(Integration): the registry after it and what it threw
addIntegrationTo(registry, name) ==
  IF name = ""
  THEN [Integrations |-> registry, error |-> "TypeError"]
  ELSE [Integrations |-> registry \cup {name}, error |-> "none"]

\* new Analytics()
InitAnalytics ==
  /\ Integrations = {}
  /\ _integrations = <<>>
  /\ initializeOptions = NoOptions
  /\ failedInitializations = <<>>
  /\ _readied = FALSE
  /\ initialized = FALSE
  /\ readyCallCount = [c \in Closures |-> 0]
  /\ integrationCount = [c \in Closures |-> 0]
  /\ readyEmits = [c \in Closures |-> 0]
  /\ inst = [n \in DestNames |-> NoInstance]
  /\ orphans = [L \in SUBSET Closures |-> 0]
  /\ initLog = NoInitLog
  /\ _sourceMiddlewares = <<>>
  /\ _integrationMiddlewares = <<>>
  /\ _destinationMiddlewares = [n \in DestNames |-> <<>>]
  /\ nextMw = 1
  /\ log = NoLog
  /\ tasks = {}
  /\ run = NoRun
  /\ user = NoUser
  /\ groupEntity = NoGroup
  /\ sent = <<>>

Init ==
  /\ InitAnalytics
  /\ trial = NoTrial
  /\ entity = NewEntity("user")
  /\ store = NewStore(TRUE, TRUE, "null")
  /\ did = NoDid
  /\ raised = NoRaised
  /\ initialPageSkipped = <<>>
  /\ pages = [n \in DestNames |-> NoPage]
  /\ callbacks = [i \in 1..MaxFns |-> NoCallback]
  /\ events = NoEvents
  /\ metrics = NewMetrics

\* addIntegration with any constructor
addIntegrationOf ==
  \E name \in ConstructorNames :
    /\ run.i = 0
    /\ Integrations' = addIntegrationTo(Integrations, name).Integrations
    /\ raised' = [given |-> name, error |-> addIntegrationTo(Integrations, name).error]
    /\ UNCHANGED <<_sourceMiddlewares, _integrationMiddlewares,
                   _destinationMiddlewares, nextMw, initVars, callVars, msgVars,
                   trial, entity, store, did, pageVars, metrics, callbacks, events>>

addIntegration ==
  \E name \in DestNames :
    /\ run.i = 0
    /\ Integrations' = Integrations \cup {name}
    /\ UNCHANGED <<_sourceMiddlewares, _integrationMiddlewares,
                   _destinationMiddlewares, nextMw, initVars, callVars, msgVars, unitVars>>

addSourceMiddleware ==
  /\ run.i = 0
  /\ nextMw <= MaxMw
  /\ _sourceMiddlewares' = Append(_sourceMiddlewares, nextMw)
  /\ nextMw' = nextMw + 1
  /\ UNCHANGED <<Integrations, _integrationMiddlewares, _destinationMiddlewares,
                 initVars, callVars, msgVars, unitVars>>

addIntegrationMiddleware ==
  /\ run.i = 0
  /\ nextMw <= MaxMw
  /\ _integrationMiddlewares' = Append(_integrationMiddlewares, nextMw)
  /\ nextMw' = nextMw + 1
  /\ UNCHANGED <<Integrations, _sourceMiddlewares, _destinationMiddlewares,
                 initVars, callVars, msgVars, unitVars>>

\* the new middlewares put before the ones the chain has
destinationChainPrepended(chain, middlewares) == middlewares \o chain

\* middlewares.forEach(middleware => chain.add(middleware))
destinationChainAdded(chain, middlewares) == chain \o middlewares

\* addDestinationMiddleware(integrationName, middlewares) with n new middlewares
addDestinationMiddleware ==
  \E name \in DestNames, n \in 1..2 :
    /\ run.i = 0
    /\ nextMw + n - 1 <= MaxMw
    /\ _destinationMiddlewares' =
         [_destinationMiddlewares EXCEPT
            ![name] = destinationChainAdded(@, [j \in 1..n |-> nextMw + j - 1])]
    /\ nextMw' = nextMw + n
    /\ UNCHANGED <<Integrations, _sourceMiddlewares, _integrationMiddlewares,
                   initVars, callVars, msgVars, unitVars>>


\* the ready closures some instance still holds as a listener; the counters of
\* any other closure are garbage when initialize makes a new one
liveClosures ==
  UNION { inst[n].listeners : n \in DestNames }
    \cup UNION { L \in SUBSET Closures : orphans[L] > 0 }

\* initialize(settings, options) for options of `inputs`, where
\* integration.initialize() does one of `outcomes`
initializeWith(inputs, outcomes) ==
  \E settings \in Settings, options \in inputs :
    LET free == Closures \ liveClosures
        c == CHOOSE x \in free : \A y \in free : x <= y
        cleaned == SelectSeq(settings, LAMBDA n : n \in Integrations)
        loaded == SelectSeq(cleaned, LAMBDA n : ~disabledAtInitialize(options, n))
        ints == added(_integrations, loaded)
        replaced == Range(loaded) \cap Range(_integrations)
        total == Len(ints)
        kept(f) == [x \in Closures |-> IF x \in liveClosures THEN f[x] ELSE 0]
        rs0 == [count |-> kept(readyCallCount),
                total |-> [kept(integrationCount) EXCEPT ![c] = total],
                emits |-> kept(readyEmits), readied |-> FALSE,
                inst |-> [n \in DestNames |->
                            IF n \in Range(loaded) THEN NoInstance ELSE inst[n]],
                failed |-> <<>>, ilog |-> NoInitLog]
        rs1 == IF total <= 0 THEN ready(rs0, {c}) ELSE rs0
    IN  /\ run.i = 0
        /\ free # {}
        /\ \E o \in [Range(ints) -> outcomes] :
             LET rs == initializeIntegrations(rs1, ints, 1, c, o)
             IN  /\ \A n \in DestNames : rs.inst[n].pending <= MaxInits
                 /\ _integrations' = ints
                 /\ initializeOptions' = options
                 /\ failedInitializations' = rs.failed
                 /\ _readied' = rs.readied
                 /\ readyCallCount' = rs.count
                 /\ integrationCount' = rs.total
                 /\ readyEmits' = rs.emits
                 /\ inst' = rs.inst
                 /\ initLog' = [rs.ilog EXCEPT !.c = c]
                 /\ callbacks' = emitFacadeReady(callbacks, rs.emits # rs0.emits,
                                                 \E n \in Range(ints) : c \in rs.inst[n].listeners)
        /\ orphans' = orphanedAll(orphans, replaced, inst)
        /\ initialized' = TRUE
        /\ log' = NoLog
        /\ tasks' = {}
        /\ sent' = <<>>
        /\ events' = NoEvents
        /\ UNCHANGED <<regVars, run, user, groupEntity, quietVars>>

\* initialize(settings): no options; every destination signals ready, or throws,
\* before its initialize returns
initialize == initializeWith({NoOptions}, {"ready", "throw"})

\* initialize(settings, options) with options.integrations
initializeOptioned == initializeWith(InitializeInputs, {"ready", "throw"})

\* a destination may also signal ready after its initialize has returned
initializeAsync == initializeWith({NoOptions}, InitOutcomes)

\* an instance signals ready after its initialize returned
integrationReady ==
  \E name \in Range(_integrations) :
    /\ run.i = 0
    /\ inst[name].pending > 0
    /\ LET rs0 == [count |-> readyCallCount, total |-> integrationCount,
                   emits |-> readyEmits, readied |-> _readied,
                   inst |-> [inst EXCEPT ![name].pending = @ - 1],
                   failed |-> failedInitializations, ilog |-> initLog]
           rs == emitReady(rs0, name)
       IN  /\ _readied' = rs.readied
           /\ readyCallCount' = rs.count
           /\ readyEmits' = rs.emits
           /\ inst' = rs.inst
           /\ callbacks' = emitFacadeReady(callbacks, rs.emits # rs0.emits,
                                           \E n \in Range(_integrations) :
                                             initLog.c \in rs.inst[n].listeners)
    /\ UNCHANGED <<_integrations, initializeOptions, failedInitializations, initialized,
                   integrationCount, orphans, initLog, regVars, callVars, msgVars, quietVars, events>>

\* a replaced instance signals ready
orphanReady ==
  \E L \in SUBSET Closures :
    /\ run.i = 0
    /\ orphans[L] > 0
    /\ LET rs0 == [count |-> readyCallCount, total |-> integrationCount,
                   emits |-> readyEmits, readied |-> _readied,
                   inst |-> inst, failed |-> failedInitializations, ilog |-> initLog]
           rs == ready(rs0, L)
       IN  /\ _readied' = rs.readied
           /\ readyCallCount' = rs.count
           /\ readyEmits' = rs.emits
           /\ callbacks' = emitFacadeReady(callbacks, rs.emits # rs0.emits,
                                           \E n \in Range(_integrations) :
                                             initLog.c \in inst[n].listeners)
    /\ orphans' = [orphans EXCEPT ![L] = @ - 1]
    /\ UNCHANGED <<_integrations, initializeOptions, failedInitializations, initialized,
                   integrationCount, inst, initLog, regVars, callVars, msgVars, quietVars, events>>

\* an operation on the Metrics object leaves it as `m`
metricsStep(m) ==
  /\ metrics' = m
  /\ UNCHANGED <<regVars, initVars, callVars, msgVars, trial, entity, store, did, raised,
                 pageVars, callbacks, events>>

metricsOptions == \E o \in MetricsOptions : metricsStep(optionsSet(metrics, o))

\* an increment; the queue of the model holds MaxQueued entries at most
metricsIncrement ==
  \E metric \in MetricNames, random \in Randoms :
    /\ Len(metrics.queue) < MaxQueued
    /\ metricsStep(incremented(metrics, metric, random))

metricsFlush == metricsStep([flushed(metrics) EXCEPT !.last = [NoMetricsCall EXCEPT !.op = "flush"]])

\* the callback of a setInterval of options
metricsInterval ==
  /\ metrics.intervals
  /\ metricsStep([flushed(metrics) EXCEPT !.last = [NoMetricsCall EXCEPT !.op = "flush"]])

\* ready(fn) with a function that was not given before
readyCall ==
  \E i \in 1..MaxFns :
    /\ run.i = 0
    /\ callbacks[i].st = "none"
    /\ \A j \in 1..(i - 1) : callbacks[j].st # "none"
    /\ callbacks' = readyFn(callbacks, i, _readied)
    /\ UNCHANGED <<regVars, initVars, callVars, msgVars, quietVars, events>>

\* the next tick: a function that nextTick holds is called
tick ==
  \E i \in 1..MaxFns :
    /\ run.i = 0
    /\ callbacks[i].st = "queued"
    /\ callbacks' = [callbacks EXCEPT
                       ![i] = called(@, \E n \in Range(_integrations) :
                                          initLog.c \in inst[n].listeners)]
    /\ UNCHANGED <<regVars, initVars, callVars, msgVars, quietVars, events>>

\* this.emit(method, ...) of a facade method, which follows its _invoke: the
\* forEach over the destinations that the callback of the source chain began
\* is inside the _invoke, one begun by a callback that comes later is not
afterInvokeOfPassed(ev, s, r) ==
  IF r.i > 0 THEN [ev EXCEPT !.open = TRUE]
  ELSE IF s.src = "passed" THEN [ev EXCEPT !.n = @ + 1, !.open = FALSE]
  ELSE [ev EXCEPT !.open = FALSE]

afterInvoke(ev, s, r) ==
  IF r.i > 0 THEN [ev EXCEPT !.open = TRUE]
  ELSE [ev EXCEPT !.n = @ + 1, !.open = FALSE]

\* a merge in which the integrations of initialize win
messageIntegrationsInitWins(method, ci) == Merge(ci, initializeOptions.integrations)

\* the integrations of the message of a facade call: track merges always, the
\* others when initializeOptions.integrations is set
messageIntegrations(method, ci) ==
  IF method = "track" \/ initializeOptions.hasIntegrations
  THEN Merge(initializeOptions.integrations, ci)
  ELSE ci

\* a facade call with arguments of `calls`, up to the callback of its source
\* chain; the last `keep` envelopes are remembered
facadeCallWith(method, calls, keep) ==
  /\ run.i = 0
  /\ \E call \in calls :
       LET m == message(method, call)
           n == normalizeMessage(m.message, m.user, held(earlier(keep)))
           msg == [n.msg EXCEPT !.integrations.v = messageIntegrations(method, @)]
       IN  /\ \E s \in invoke(Envelope(msg.integrations.v)) :
                 /\ log' = Logged(s, s.heap[1].marks)
                 /\ tasks' = s.tasks
                 /\ run' = startRun(s)
                 /\ events' = IF keep = 0 THEN events
                              ELSE afterInvoke([NoEvents EXCEPT !.method = method], s, startRun(s))
           /\ user' = n.user
           /\ groupEntity' = m.group
           /\ sent' = remembered(keep, [method |-> method, call |-> call,
                                        msg |-> msg, uuid |-> n.uuid])
  /\ UNCHANGED <<regVars, initVars, quietVars, callbacks>>

\* a facade call of the dispatch specifications
facadeCall(method) == facadeCallWith(method, PlainCalls, 0)

identify == facadeCall("identify")
track == facadeCall("track")
page == facadeCall("page")
group == facadeCall("group")
alias == facadeCall("alias")

\* the facade calls of the message specification; the last envelope is remembered
identifyMessage == facadeCallWith("identify", MessageCalls("identify"), 1)
trackMessage == facadeCallWith("track", MessageCalls("track"), 1)
pageMessage == facadeCallWith("page", MessageCalls("page"), 1)
groupMessage == facadeCallWith("group", MessageCalls("group"), 1)
aliasMessage == facadeCallWith("alias", MessageCalls("alias"), 1)

\* the facade calls of the identity specification; the last two envelopes are
\* remembered
identifyUser == facadeCallWith("identify", IdentityCalls("identify"), 2)
trackUser == facadeCallWith("track", IdentityCalls("track"), 2)
pageUser == facadeCallWith("page", IdentityCalls("page"), 2)
groupUser == facadeCallWith("group", IdentityCalls("group"), 2)
aliasUser == facadeCallWith("alias", IdentityCalls("alias"), 2)

\* a facade call without arguments
BareCalls == { Call("undefined", "undefined", Undefined(NoCallOptions)) }

\* identify(), track(), page(), group() or alias()
facadeBare == \E method \in Methods : facadeCallWith(method, BareCalls, 0)

\* a reset that empties the registry and the failures too
resetRegistration ==
  /\ run.i = 0
  /\ user' = userLogout(user)
  /\ groupEntity' = NoGroup
  /\ sent' = <<>>
  /\ events' = NoEvents
  /\ Integrations' = {}
  /\ failedInitializations' = <<>>
  /\ UNCHANGED <<_sourceMiddlewares, _integrationMiddlewares, _destinationMiddlewares, nextMw,
                 _integrations, initializeOptions, _readied, initialized, readyCallCount,
                 integrationCount, readyEmits, inst, orphans, initLog, callVars,
                 quietVars, callbacks>>

\* reset(): user.logout() and group.logout()
reset ==
  /\ run.i = 0
  /\ user' = userLogout(user)
  /\ groupEntity' = NoGroup
  /\ sent' = <<>>
  /\ events' = NoEvents
  /\ UNCHANGED <<regVars, initVars, callVars, quietVars, callbacks>>

\* track(event, properties, options); the envelope is remembered
trackLast == facadeCallWith("track", PlainCalls, 1)

\* a call with options that name no destination
EventCalls == { Call("undefined", "undefined", IntegrationsOnly(EmptyMap)) }

\* the facade calls whose method-named event is remembered
identifyEvent == facadeCallWith("identify", EventCalls, 1)
trackEvent == facadeCallWith("track", EventCalls, 1)
pageEvent == facadeCallWith("page", EventCalls, 1)
groupEvent == facadeCallWith("group", EventCalls, 1)
aliasEvent == facadeCallWith("alias", EventCalls, 1)

\* normalize(msg, list) is called with the options and the list of the trial
normalizeCall ==
  /\ ~trial.done
  /\ trial' = [trial EXCEPT !.done = TRUE, !.ret = normalizeOptions(trial.options, trial.list)]
  /\ UNCHANGED <<regVars, initVars, callVars, msgVars, entity, store, did, raised, pageVars, metrics, callbacks, events>>

\* a second facade call hands the options object of the first to normalize
normalizeAgain ==
  /\ trial.done
  /\ ~trial.again
  /\ trial' = [trial EXCEPT !.again = TRUE, !.next = normalizeOptions(trial.ret.opts, trial.list)]
  /\ UNCHANGED <<regVars, initVars, callVars, msgVars, entity, store, did, raised, pageVars, metrics, callbacks, events>>

\* initialize(settings, options) as far as the pages of the destinations go:
\* the instances of the settings are made and added, the pages are wrapped, and
\* the listener of 'initialize' calls this.page() where options.initialPageview
\* is set.  The constructors of all destinations are registered.
initializePageview ==
  \E settings \in Settings, own \in [DestNames -> {"false", "undefined"}],
     initialPageview \in BOOLEAN :
    LET c == Len(initialPageSkipped) + 1
        ints == added(_integrations, settings)
        made == [n \in DestNames |->
                   IF n \in Range(settings) THEN NewPage(own[n])
                   ELSE [pages[n] EXCEPT !.calls = 0, !.handled = 0]]
        pv == [skipped |-> Append(initialPageSkipped, FALSE),
               pages |-> wrapPages(made, ints, initialPageview, c)]
        after == IF initialPageview THEN pageAll(pv, ints, 1) ELSE pv
    IN  /\ c <= MaxInits
        /\ _integrations' = ints
        /\ initialized' = TRUE
        /\ initialPageSkipped' = after.skipped
        /\ pages' = after.pages
        /\ UNCHANGED <<initializeOptions, failedInitializations, _readied, readyCallCount,
                       integrationCount, readyEmits, inst, orphans, initLog,
                       regVars, callVars, msgVars, trial, entity, store, did, raised, metrics, callbacks, events>>

\* page(): every destination receives a page call
pageCall ==
  /\ initialized
  /\ \A n \in DestNames : pages[n].calls < MaxPages
  /\ LET after == pageAll([skipped |-> initialPageSkipped, pages |-> pages], _integrations, 1)
     IN  /\ initialPageSkipped' = after.skipped
         /\ pages' = after.pages
  /\ UNCHANGED <<regVars, initVars, callVars, msgVars, trial, entity, store, did, raised, metrics, callbacks, events>>

\* the uuids in use: the stored anonymous ids and those of the last operation
heldByEntity ==
  { n \in {store.cookie.anon, store.local.anon, did.before.anon, did.ret} : n > 0 }

\* an operation on the entity leaves `w` and is recorded as `d`
entityStep(w, d) ==
  /\ entity' = w.e
  /\ store' = w.s
  /\ did' = d
  /\ UNCHANGED <<regVars, initVars, callVars, msgVars, trial, raised, pageVars, metrics, callbacks, events>>

\* user.id = id, group.id = id
idAssign ==
  \E id \in EntityIds \cup {"null"} :
    entityStep(idSet(With(entity, store), id), Did("setId", id, Undefined(EmptyMap), 0, {"id", "anon"}))

\* user.traits = traits, group.traits = traits
traitsAssign ==
  \E traits \in TraitMaps :
    entityStep(traitsSet(With(entity, store), Object(traits)),
               Did("setTraits", "null", Undefined(EmptyMap), 0, {}))

\* user.identify(id, traits), group.identify(id, traits)
identifyCall ==
  \E id \in EntityIds \cup {"undefined"},
     traits \in {Undefined(EmptyMap)} \cup { Object(t) : t \in TraitMaps } :
    entityStep(identifyEntity(With(entity, store), id, traits), Did("identify", id, traits, 0, {"id", "traits"}))

\* user.options.persist = value
persistAssign ==
  \E value \in BOOLEAN :
    entityStep(With(persistSet(entity, value), store),
               Did("setPersist", "null", Undefined(EmptyMap), 0, {}))

\* user.logout(), group.logout()
logoutCall ==
  entityStep(logout(With(entity, store)), Did("logout", "null", Undefined(EmptyMap), 0, {}))

\* user.anonymousId()
anonymousIdCall ==
  /\ entity.kind = "user"
  /\ LET r == anonymousIdGet(store, fresh(heldByEntity))
     IN  entityStep(With(entity, r.s), Did("anonymousId", "null", Undefined(EmptyMap), r.ret, {"anon"}))

\* user.anonymousId('anon-id')
anonymousIdAssign ==
  /\ entity.kind = "user"
  /\ entityStep(With(entity, anonymousIdSet(store, -1)),
                Did("setAnonymousId", "null", Undefined(EmptyMap), -1, {}))

\* the cookie of the anonymous id is deleted from outside: cookie.remove(key)
cookieRemoved ==
  /\ store.cookie.anon # 0
  /\ entityStep(With(entity, storeWrite(store, "cookie", "anon", 0)),
                Did("cookieRemove", "null", Undefined(EmptyMap), 0, {"anon"}))

\* user.storage.remove('ajs_anonymous_id')
storageRemoved ==
  /\ entity.kind = "user"
  /\ storeGet(store, "anon") # 0
  /\ entityStep(With(entity, storeRemove(store, "anon")),
                Did("storageRemove", "null", Undefined(EmptyMap), 0, {"anon"}))

\* the cookie of the id is deleted from outside: cookie.remove(cookieKey); the
\* record holds the id that the cookie held
idCookieRemoved ==
  /\ store.cookie.id # "null"
  /\ entityStep(With(entity, storeWrite(store, "cookie", "id", "null")),
                Did("idCookieRemove", store.cookie.id, Undefined(EmptyMap), 0, {}))

\* initialize(settings, options) where the options may hold a tracking plan
initializePlanned == initializeWith(PlanInputs, {"ready", "throw"})

\* a forEach that waits for the callback of a destination's chain
forEachWaiting(s) ==
  IF \E n \in DestNames : s.d[n].st = "stalled"
  THEN run
  ELSE IF run.i >= Len(_integrations)
  THEN NoRun
  ELSE [run EXCEPT !.i = @ + 1, !.facade = s.heap[1]]

\* the forEach goes on with the next key, and the same facade, or is over
forEachNext(s) ==
  IF run.i >= Len(_integrations)
  THEN NoRun
  ELSE [run EXCEPT !.i = @ + 1, !.facade = s.heap[1]]

\* a forEach that visits the keys from the last one to the first
forEachKeyReversed == _integrations[Len(_integrations) - run.i + 1]

\* the key the forEach over Object.keys(self._integrations) visits next
forEachKey == _integrations[run.i]

\* the forEach of applyIntegrationMiddlewares visits the next destination; nothing
\* else runs until the forEach is over
applyIntegrationMiddlewares ==
  /\ run.i > 0
  /\ LET s0 == [heap |-> <<run.facade>>, d |-> log.d, tasks |-> tasks,
                uncaught |-> log.uncaught, srcRan |-> log.srcRan,
                src |-> log.src, emits |-> log.invokeEmits, res |-> log.res,
                start |-> Null]
     IN  \E s \in applyIntegration(s0, forEachKey, 1) :
           /\ log' = [log EXCEPT !.d = s.d, !.uncaught = s.uncaught]
           /\ tasks' = s.tasks
           /\ run' = forEachNext(s)
           /\ events' = IF events.open THEN afterInvoke(events, s, forEachNext(s)) ELSE events
  /\ UNCHANGED <<regVars, initVars, msgVars, quietVars, callbacks>>

\* A middleware calls its callback later, outside every try block of _invoke.
\* Only the callbacks of the latest facade call are followed: one still pending
\* when a later facade call or initialize begins cannot touch the record of
\* that later call, so it is left out like a callback that never comes.
runTask ==
  /\ run.i = 0
  /\ \E t \in tasks :
       \E s \in resume(t) :
         /\ log' = [log EXCEPT !.src = s.src, !.srcRan = s.srcRan,
                              !.invokeEmits = s.emits, !.res = s.res,
                              !.d = s.d, !.uncaught = s.uncaught]
         /\ tasks' = s.tasks
         /\ run' = startRun(s)
  /\ UNCHANGED <<regVars, initVars, msgVars, unitVars>>

\* Dispatch through the middleware chains.
Next ==
  \/ addIntegration
  \/ addSourceMiddleware
  \/ addIntegrationMiddleware
  \/ addDestinationMiddleware
  \/ initialize
  \/ identify
  \/ track
  \/ page
  \/ group
  \/ alias
  \/ applyIntegrationMiddlewares
  \/ runTask

Spec == Init /\ [][Next]_vars

\* Dispatch under the integrations maps of initialize and of the calls, without
\* middlewares.
NextOptions ==
  \/ addIntegration
  \/ initializeOptioned
  \/ identify
  \/ track
  \/ page
  \/ group
  \/ alias
  \/ applyIntegrationMiddlewares

SpecOptions == Init /\ [][NextOptions]_vars

\* Registration and initialization alone, with destinations that signal ready late.
NextReady ==
  \/ addIntegration
  \/ initializeAsync
  \/ integrationReady
  \/ orphanReady

SpecReady == Init /\ [][NextReady]_vars

\* Registration with constructors of any kind, and initialization.
NextRegistry ==
  \/ addIntegrationOf
  \/ initializeAsync
  \/ integrationReady
  \/ orphanReady

SpecRegistry == Init /\ [][NextRegistry]_vars

\* The messages the facade methods build, and their dispatch without middlewares.
NextMessages ==
  \/ addIntegration
  \/ initializePlanned
  \/ identifyMessage
  \/ trackMessage
  \/ pageMessage
  \/ groupMessage
  \/ aliasMessage
  \/ applyIntegrationMiddlewares

SpecMessages == Init /\ [][NextMessages]_vars

\* The user and group entities and the envelopes of consecutive facade calls,
\* with no destination loaded.
NextIdentity ==
  \/ identifyUser
  \/ trackUser
  \/ pageUser
  \/ groupUser
  \/ aliasUser
  \/ reset

SpecIdentity == Init /\ [][NextIdentity]_vars

\* Registration, initialization, the facade methods under the three middleware
\* chains, and reset.
NextSteady ==
  \/ addIntegration
  \/ addSourceMiddleware
  \/ addIntegrationMiddleware
  \/ addDestinationMiddleware
  \/ initialize
  \/ facadeBare
  \/ applyIntegrationMiddlewares
  \/ runTask
  \/ reset

SpecSteady == Init /\ [][NextSteady]_vars

\* Registration, initialization and track under the three middleware chains;
\* the envelope of the call is remembered.
NextInvoke ==
  \/ addIntegration
  \/ addSourceMiddleware
  \/ addIntegrationMiddleware
  \/ addDestinationMiddleware
  \/ initialize
  \/ trackLast
  \/ applyIntegrationMiddlewares
  \/ runTask

SpecInvoke == Init /\ [][NextInvoke]_vars

\* The facade calls and the events they emit: source middlewares and
\* destinations.
NextEvents ==
  \/ addIntegration
  \/ addSourceMiddleware
  \/ initialize
  \/ identifyEvent
  \/ trackEvent
  \/ pageEvent
  \/ groupEvent
  \/ aliasEvent
  \/ applyIntegrationMiddlewares
  \/ runTask

SpecEvents == Init /\ [][NextEvents]_vars

\* Registration, initialization with destinations that signal ready late, and
\* ready(fn).
NextCallbacks ==
  \/ addIntegration
  \/ initializeAsync
  \/ integrationReady
  \/ orphanReady
  \/ readyCall
  \/ tick

SpecCallbacks == Init /\ [][NextCallbacks]_vars

\* The Metrics object alone.
NextMetrics ==
  \/ metricsOptions
  \/ metricsIncrement
  \/ metricsFlush
  \/ metricsInterval

SpecMetrics == Init /\ [][NextMetrics]_vars

\* The initial pageview: initialize and page alone.
NextPageview ==
  \/ initializePageview
  \/ pageCall

SpecPageview == Init /\ [][NextPageview]_vars

\* One User or Group object and its store, in a browser where cookies work or
\* do not, with or without the localStorage fallback and the legacy cookie.
InitEntity ==
  /\ InitAnalytics
  /\ trial = NoTrial
  /\ \E kind \in {"user", "group"}, cookies \in BOOLEAN, useLocalStorage \in BOOLEAN,
        sio \in {"null", "legacy----user"} :
       /\ kind = "group" => sio = "null"
       /\ entity = NewEntity(kind)
       /\ store = NewStore(cookies, useLocalStorage, sio)
  /\ did = NoDid
  /\ raised = NoRaised
  /\ initialPageSkipped = <<>>
  /\ pages = [n \in DestNames |-> NoPage]
  /\ callbacks = [i \in 1..MaxFns |-> NoCallback]
  /\ events = NoEvents
  /\ metrics = NewMetrics

NextEntity ==
  \/ idAssign
  \/ traitsAssign
  \/ identifyCall
  \/ persistAssign
  \/ logoutCall
  \/ anonymousIdCall
  \/ anonymousIdAssign
  \/ cookieRemoved
  \/ storageRemoved
  \/ idCookieRemoved

SpecEntity == InitEntity /\ [][NextEntity]_vars

\* normalize of lib/messages alone, for options and lists of the input sets.
InitNormalize ==
  /\ InitAnalytics
  /\ trial \in { [NoTrial EXCEPT !.options = o, !.list = l] : o \in Drafts, l \in NormalizeLists }
  /\ entity = NewEntity("user")
  /\ store = NewStore(TRUE, TRUE, "null")
  /\ did = NoDid
  /\ raised = NoRaised
  /\ initialPageSkipped = <<>>
  /\ pages = [n \in DestNames |-> NoPage]
  /\ callbacks = [i \in 1..MaxFns |-> NoCallback]
  /\ events = NoEvents
  /\ metrics = NewMetrics

NextNormalize ==
  \/ normalizeCall
  \/ normalizeAgain

SpecNormalize == InitNormalize /\ [][NextNormalize]_vars

(***************************************************************************)
(* Properties of the dispatch                                              *)
(***************************************************************************)
\* b comes after a in the insertion order of _integrations
After(a, b) ==
  \E i, j \in 1..Len(_integrations) :
    i < j /\ _integrations[i] = a /\ _integrations[j] = b

\* the forEach over the destinations has visited every destination
ForEachOver == log.active /\ log.src = "passed" /\ run.i = 0

\* C1: when the handler or a middleware of destination a throws, the exception
\* is swallowed (caught and logged by the dispatch), and once the forEach is
\* over every destination after a has been visited by it too.
C1_ThrowSwallowedOthersVisited ==
  \A a \in DestNames :
    log.d[a].err # "none" =>
      /\ log.d[a].err = "caught"
      /\ ForEachOver =>
           \A b \in DestNames : After(a, b) => log.d[b].st # "none"

\* C2: no exception of a middleware or of a handler escapes the try blocks of
\* the dispatch, neither out of the facade method nor later as an uncaught error
\* of a callback.
C2_NothingUncaught == log.uncaught = FALSE

\* C3: a destination the options of the last initialize disabled has had its
\* handler invoked by no facade call since that initialize.
C3_DisabledNeverInvoked ==
  \A d \in DestNames :
    disabledAtInitialize(initializeOptions, d) => log.d[d].n = 0

\* C4: when the integration chain dropped the envelope for destination a, the
\* handler of a was not invoked, and once the forEach is over every other
\* destination has been visited, and a handler that was invoked received an
\* envelope with no change made while a was processed.
C4_DropIsolated ==
  \A a \in DestNames :
    (log.d[a].st = "dropped" /\ log.d[a].at = "int") =>
      /\ log.d[a].n = 0
      /\ ForEachOver =>
           \A b \in Range(_integrations) \ {a} :
             /\ log.d[b].st # "none"
             /\ \A t \in log.d[b].recv : t[2] # a

C4_Witness ==
  /\ ForEachOver
  /\ \E a, b \in DestNames :
       /\ After(a, b)
       /\ log.d[a].st = "dropped" /\ log.d[a].at = "int"
       /\ log.d[a].made # NoMarks
       /\ log.d[b].st = "invoked" /\ log.d[b].n = 1

\* C5: when the source chain dropped the envelope, no chain ran for any
\* destination, no handler was invoked and the forEach did not begin.
C5_SourceDropStopsAll ==
  log.src = "dropped" =>
    /\ run.i = 0
    /\ \A d \in DestNames : log.d[d] = NoEntry

C5_Witness ==
  /\ log.active /\ log.src = "dropped"
  /\ Len(_integrations) = 2
  /\ failedInitializations = <<>>
  /\ Len(_integrationMiddlewares) > 0

\* C6: a destination in failedInitializations stays in it: no step takes a
\* destination from failed back to ready.
C6_FailedForever ==
  [][\A d \in DestNames :
       d \in Range(failedInitializations) => d \in Range(failedInitializations')]_vars

\* C7: after initialize, no exception of a destination's initialize reached the
\* caller, every destination whose initialize threw is in failedInitializations,
\* and initialize was called on every registered destination.
C7_InitializeThrowContained ==
  initLog.c # 0 =>
    /\ initLog.threw = FALSE
    /\ initLog.thrown \subseteq Range(failedInitializations)
    /\ initLog.called = Range(_integrations)

C7_Witness ==
  /\ Len(_integrations) = 2
  /\ _integrations[1] \in initLog.thrown
  /\ _integrations[2] \in initLog.called \ initLog.thrown

\* every registered destination has signalled ready, or thrown from initialize,
\* since the last initialize registered its ready closure on it
AllSignalled ==
  \A n \in Range(_integrations) : initLog.c \notin inst[n].listeners

\* C8: after initialize, once every registered destination has signalled ready
\* or thrown, 'ready' has been emitted and _readied is true (with no destination:
\* at once); a ready closure emits 'ready' at most once.
C8_ReadyNotBlocked ==
  /\ \A c \in Closures : readyEmits[c] <= 1
  /\ (initLog.c # 0 /\ AllSignalled) =>
       (_readied /\ readyEmits[initLog.c] = 1)

C8_Witness ==
  /\ initLog.c # 0
  /\ Len(_integrations) = 2
  /\ failedInitializations # <<>>
  /\ Len(failedInitializations) < 2
  /\ AllSignalled
  /\ _readied
  /\ readyEmits[initLog.c] = 1

\* C9: the destination chain of a destination is applied to the envelope the
\* integration chain handed to its callback.
C9_DestinationChainFedIntegrationOutput ==
  \A d \in DestNames :
    log.d[d].dst => log.d[d].dstIn = log.d[d].intOut

\* C10: the handler of a destination receives every change the middlewares made
\* while they processed that destination and no change made while they
\* processed another one, and the caller's message carries no change.
C10_OwnCopy ==
  /\ log.orig = NoMarks
  /\ \A x \in DestNames :
       log.d[x].st = "invoked" =>
         /\ log.d[x].made \subseteq log.d[x].recv
         /\ \A t \in log.d[x].recv : t[2] \in {x, "src"}

\* C11: the stages a destination went through are, in this order, the
\* integration chain, the destination chain if the destination has one, and the
\* handler; the handler was invoked only after the source chain passed the
\* envelope and every chain of the destination called back with a payload.
C11_StagesInOrder ==
  \A d \in DestNames :
    LET e == log.d[d]
        full == IF e.dst THEN <<"int", "dst", "handler">> ELSE <<"int", "handler">>
    IN  /\ \E k \in 0..Len(full) : e.stages = SubSeq(full, 1, k)
        /\ e.n > 0 => (log.src = "passed" /\ e.stages = full /\ e.n = 1)

C11_Witness ==
  \E d \in DestNames :
    /\ log.d[d].n = 1
    /\ log.d[d].dst
    /\ Len(log.d[d].intRan) = 1
    /\ Len(log.d[d].dstRan) = 1

\* s begins t
IsPrefix(s, t) == Len(s) <= Len(t) /\ s = SubSeq(t, 1, Len(s))

\* the ids of s grow: every middleware of s was registered after the ones before it
InRegistrationOrder(s) == \A i, j \in 1..Len(s) : i < j => s[i] < s[j]

\* C12: every chain holds its middlewares in the order they were registered, and
\* the middlewares that ran for a facade call ran in that order, with none left
\* out before the last one that ran.
C12_RegistrationOrder ==
  /\ InRegistrationOrder(_sourceMiddlewares)
  /\ InRegistrationOrder(_integrationMiddlewares)
  /\ IsPrefix(log.srcRan, _sourceMiddlewares)
  /\ \A d \in DestNames :
       /\ InRegistrationOrder(_destinationMiddlewares[d])
       /\ IsPrefix(log.d[d].intRan, _integrationMiddlewares)
       /\ IsPrefix(log.d[d].dstRan, _destinationMiddlewares[d])

C12_Witness ==
  \E d \in DestNames :
    /\ log.d[d].n = 1
    /\ log.d[d].dstRan = <<1, 2>>

\* C13: a facade call whose envelope passed the source chain has emitted
\* 'invoke' exactly once, whatever the number of destinations, and a call whose
\* envelope did not pass it (dropped, or not yet through) has not emitted it.
C13_InvokeEmittedOnce ==
  /\ log.src = "passed" => log.invokeEmits = 1
  /\ log.src # "passed" => log.invokeEmits = 0

C13_Witness ==
  /\ log.src = "passed"
  /\ log.invokeEmits = 1
  /\ Len(_integrations) = 2
  /\ Len(log.srcRan) > 0
  /\ run.i = 0

\* C14: when a middleware of the chains of destination a never called its
\* callback, the handler of a was not invoked, the forEach went on past a, and
\* once it is over every other destination has been visited and a further
\* facade call can be made.
C14_StallBlocksOnlyItself ==
  \A a \in DestNames :
    log.d[a].st = "stalled" =>
      /\ log.d[a].n = 0
      /\ \A i \in 1..Len(_integrations) :
           _integrations[i] = a => (run.i = 0 \/ run.i > i)
      /\ run.i = 0 =>
           /\ \A b \in Range(_integrations) \ {a} : log.d[b].st # "none"
           /\ ENABLED track

C14_Witness ==
  /\ ForEachOver
  /\ \E a, b \in DestNames :
       /\ After(a, b)
       /\ log.d[a].st = "stalled"
       /\ log.d[b].st = "invoked" /\ log.d[b].n = 1

\* C33: while no callback of a middleware is outstanding, a step that invokes
\* the handler of destination b finds no handler invoked yet of a destination
\* added to _integrations after b: the handlers of one facade call are invoked
\* in the order in which the destinations were added.
C33_HandlersInRegistrationOrder ==
  [][\A b \in DestNames :
       (tasks = {} /\ log'.d[b].n > log.d[b].n) =>
         \A c \in DestNames : After(b, c) => log.d[c].n = 0]_vars

\* both destinations, added in the order B, A, had their handler invoked by one
\* facade call whose integration chain ran for each of them
C33_Witness ==
  /\ ForEachOver
  /\ tasks = {}
  /\ _integrations = <<"B", "A">>
  /\ \A d \in DestNames : log.d[d].n = 1 /\ Len(log.d[d].intRan) > 0

\* the facade call is over: the forEach is, and no callback is outstanding
CallOver == log.active /\ run.i = 0 /\ tasks = {}

\* every middleware that ran for the call called its callback: none threw and
\* none stalled
AllCalledBack ==
  /\ log.src \notin {"caught", "threw", "stalled"}
  /\ \A d \in DestNames : log.d[d].st \notin {"threw", "stalled"}

\* destination d is to receive the call: the source chain passed the envelope,
\* the envelope enables d, the initialize of d did not throw in the last
\* initialize (which calls initialize on every instance of _integrations) and
\* no chain of d dropped the envelope
Eligible(d) ==
  /\ log.src = "passed"
  /\ enabled(sent[Len(sent)].msg.integrations.v, d)
  /\ d \notin Range(failedInitializations)
  /\ log.d[d].st # "dropped"

\* C34: no handler is invoked twice for one facade call; once a call in which
\* every middleware called its callback is over, the handler of a destination
\* in _integrations was invoked once if the envelope the source chain passed
\* enables it, its initialize did not throw and none of its chains dropped the
\* envelope, and was not invoked otherwise.
C34_HandlerOnceIfEligible ==
  /\ \A d \in DestNames : log.d[d].n <= 1
  /\ (CallOver /\ AllCalledBack) =>
       \A d \in Range(_integrations) :
         log.d[d].n = IF Eligible(d) THEN 1 ELSE 0

\* a call is over in which the handler of A was invoked once and that of B,
\* whose destination chain dropped the envelope, was not
C34_Witness ==
  /\ CallOver /\ AllCalledBack
  /\ Range(_integrations) = DestNames
  /\ failedInitializations = <<>>
  /\ log.d["A"].n = 1
  /\ log.d["B"].n = 0 /\ log.d["B"].st = "dropped" /\ log.d["B"].at = "dst"

(***************************************************************************)
(* Properties of the messages                                              *)
(***************************************************************************)
\* the last envelope handed to _invoke
Last == sent[Len(sent)]

\* the integrations of a call itself: options.integrations, and the keys of
\* options that name an instantiated destination or All
OwnIntegrations(e) ==
  LET o == e.call.options
      given == IF o.is = "object" /\ o.v.integrations.is = "object"
               THEN o.v.integrations.v ELSE EmptyMap
      top == IF o.is = "object" THEN o.v.top ELSE EmptyMap
      keys == { k \in DOMAIN top : k \in Range(_integrations) \cup {"All"} }
  IN  [k \in (DOMAIN given) \cup keys |-> IF k \in DOMAIN given THEN given[k] ELSE top[k]]

\* C15: the integrations of the envelope a facade call hands to _invoke have the
\* keys of the integrations of initialize and of the call's own integrations;
\* a key of the call has the call's value, any other the value of initialize.
C15_CallOverInitialize ==
  Len(sent) > 0 =>
    LET own == OwnIntegrations(Last)
        init == initializeOptions.integrations
        m == Last.msg.integrations.v
    IN  /\ DOMAIN m = (DOMAIN init) \cup (DOMAIN own)
        /\ \A k \in DOMAIN m : m[k] = IF k \in DOMAIN own THEN own[k] ELSE init[k]

\* a call other than track whose lifted key overrides the value of initialize
C15_Witness ==
  /\ Len(sent) > 0
  /\ Last.method # "track"
  /\ \E k \in DOMAIN initializeOptions.integrations :
       /\ k \in DOMAIN OwnIntegrations(Last)
       /\ k \in DOMAIN Last.call.options.v.top
       /\ OwnIntegrations(Last)[k] # initializeOptions.integrations[k]
       /\ Last.msg.integrations.v[k] = OwnIntegrations(Last)[k]

\* C16: when track is called with an event to which the tracking plan of
\* initialize gives enabled: false, the integrations of the envelope are exactly
\* All: false and true for the primary collection destination (here A), whatever
\* the options of the call hold.
C16_PlanDisabledOnlyPrimary ==
  (Len(sent) > 0 /\ Last.method = "track" /\ Last.call.id \in initializeOptions.plan)
    => Last.msg.integrations.v = Merge(Only("All", FALSE), Only("A", TRUE))

\* C17: after initialize with integrations All: false and A: true, once the
\* forEach of a track(event, properties) call without integrations of its own is
\* over, no destination but A had its handler invoked; A, when the initialize
\* loaded it and its initialize did not throw, had its handler invoked once,
\* with an envelope nothing changed; and the envelope handed to _invoke holds
\* the event and the properties of the call.
C17_OnlyPrimaryInvoked ==
  ( /\ initializeOptions.hasIntegrations
    /\ initializeOptions.integrations = Merge(Only("All", FALSE), Only("A", TRUE))
    /\ Len(sent) > 0
    /\ Last.method = "track"
    /\ OwnIntegrations(Last) = EmptyMap
    /\ run.i = 0 )
  => /\ \A d \in DestNames \ {"A"} : log.d[d].n = 0
     /\ ("A" \in Range(_integrations) /\ "A" \notin Range(failedInitializations))
          => (log.d["A"].n = 1 /\ log.d["A"].recv = {})
     /\ Last.msg.body.event = Last.call.id
     /\ Last.msg.body.properties = Last.call.second

\* A was invoked while B, instantiated by an earlier initialize, was not
C17_Witness ==
  /\ initializeOptions.hasIntegrations
  /\ initializeOptions.integrations = Merge(Only("All", FALSE), Only("A", TRUE))
  /\ Len(sent) > 0
  /\ Last.method = "track"
  /\ OwnIntegrations(Last) = EmptyMap
  /\ run.i = 0
  /\ "B" \in Range(_integrations)
  /\ log.d["A"].n = 1
  /\ log.d["B"].st = "disabled"
  /\ Last.msg.body.event = "Clicked"
  /\ Last.msg.body.properties = "{total}"

\* C18: when identify(id, traits) is followed by track(event), the envelope of
\* the track call has no userId and the anonymousId of the identify envelope.
C18_TrackAfterIdentify ==
  ( /\ Len(sent) = 2
    /\ sent[1].method = "identify"
    /\ sent[2].method = "track"
    /\ sent[2].call.options.is = "undefined" )
  => /\ sent[2].msg.body.userId = "undefined"
     /\ sent[2].msg.anonymousId = sent[1].msg.anonymousId

\* identify gave the user an id, and a uuid is the anonymous id of both envelopes
C18_Witness ==
  /\ Len(sent) = 2
  /\ sent[1].method = "identify"
  /\ sent[1].msg.body.userId = "u1"
  /\ user.id = "u1"
  /\ sent[2].method = "track"
  /\ sent[2].call.options.is = "undefined"
  /\ sent[2].msg.anonymousId > 0
  /\ sent[2].msg.anonymousId = sent[1].msg.anonymousId

\* C19: every envelope identify, track, page, group or alias hands to _invoke
\* has an integrations map and a context map that are objects, a context.page
\* that holds every key of the page defaults, and a messageId that is not empty.
C19_EnvelopeComplete ==
  \A i \in 1..Len(sent) :
    LET m == sent[i].msg
    IN  /\ m.integrations.is = "object"
        /\ m.context.is = "object"
        /\ m.context.v.page.is = "object"
        /\ PageKeys \subseteq DOMAIN m.context.v.page.v
        /\ Len(m.messageId) > 0

\* a call other than page whose options hold integrations: null and context: null
C19_Witness ==
  /\ Len(sent) > 0
  /\ Last.method = "identify"
  /\ Last.call.options.is = "object"
  /\ Last.call.options.v.integrations.is = "null"
  /\ Last.call.options.v.context.is = "null"
  /\ Last.msg.integrations = Object(initializeOptions.integrations)
  /\ Last.msg.context.v.page = Object(pageDefaults)

\* C20: the messageId of every envelope begins with 'ajs-' and goes on after it,
\* and the envelopes of two consecutive facade calls have different messageIds,
\* also when the two calls handed the same message to normalize.
C20_MessageIdsDiffer ==
  /\ \A i \in 1..Len(sent) :
       /\ Len(sent[i].msg.messageId) > 1
       /\ sent[i].msg.messageId[1] = "ajs-"
  /\ Len(sent) = 2 => sent[1].msg.messageId # sent[2].msg.messageId

\* two calls that handed the same message to normalize
C20_Witness ==
  /\ Len(sent) = 2
  /\ sent[1].method = sent[2].method
  /\ sent[1].msg.messageId[2] = sent[2].msg.messageId[2]
  /\ sent[1].msg.messageId # sent[2].msg.messageId


(***************************************************************************)
(* Properties of normalize of lib/messages (SpecNormalize).                *)
(***************************************************************************)
\* the options of the trial as normalize reads them
Given == nullish(trial.options, Object(NoDraft)).v
GivenIntegrations == nullish(Given.integrations, Object(EmptyMap)).v
GivenProviders == nullish(Given.providers, Object(EmptyMap)).v
GivenContext == nullish(Given.context, Object(EmptyMap)).v

\* the name is a known destination name or 'all', whatever the case
Recognized(name) ==
  \/ \E x \in Range(trial.list) : toLowerCase(x) = toLowerCase(name)
  \/ toLowerCase(name) = "all"

HeldBefore(key) ==
  IF key \in DOMAIN GivenIntegrations THEN <<GivenIntegrations[key]>>
  ELSE IF key \in DOMAIN Given.rest /\ Recognized(key) THEN <<Given.rest[key]>>
  ELSE <<>>

\* C22: in normalize, an entry of options.providers for a recognized destination
\* sets that destination's value in integrations, unless integrations holds an
\* object for it, or holds any value for it and the provider's value is a
\* boolean, and then the value held is kept; an entry for an unrecognized name
\* changes nothing in integrations; no value of providers and no key 'providers'
\* is found in the top-level fields or in context.
C22_ProvidersSetIntegrations ==
  trial.done =>
    /\ \A key \in DOMAIN GivenProviders :
         LET before == HeldBefore(key)
             blocked == /\ before # <<>>
                        /\ before[1] = "{}" \/ GivenProviders[key] \in {"true", "false"}
         IN  /\ Recognized(key) /\ ~blocked => 
               /\ key \in DOMAIN trial.ret.integrations
               /\ trial.ret.integrations[key] = GivenProviders[key]
             /\ Recognized(key) /\ blocked =>
               /\ key \in DOMAIN trial.ret.integrations
               /\ trial.ret.integrations[key] = before[1]
             /\ ~Recognized(key) =>
                  IF before = <<>> THEN key \notin DOMAIN trial.ret.integrations
                  ELSE trial.ret.integrations[key] = before[1]
    /\ GivenProviders # EmptyMap =>
         /\ "providers" \notin DOMAIN trial.ret.top \cup DOMAIN trial.ret.context
                                 \cup DOMAIN trial.ret.integrations
         /\ \A key \in DOMAIN trial.ret.context : trial.ret.context[key] \notin {"p", "true", "false"}
         /\ \A key \in DOMAIN trial.ret.top : trial.ret.top[key] \notin {"p", "true", "false"}

\* normalize has returned for providers {a: 'p', B: 'p', ALL: false} and
\* integrations {a: {}, B: 'i'} with both destinations known: a kept its object,
\* B took the provider's value and ALL was set
C22_Witness ==
  /\ trial.done
  /\ trial.list = <<"A", "B">>
  /\ DOMAIN GivenProviders = {"a", "B", "ALL"}
  /\ DOMAIN GivenIntegrations = {"a", "B"}
  /\ "ALL" \notin DOMAIN Given.rest
  /\ trial.ret.integrations["a"] = "{}"
  /\ trial.ret.integrations["B"] = "p"
  /\ trial.ret.integrations["ALL"] = "false"


\* C23: in normalize, an options key that is neither a destination name nor
\* 'providers' is routed by its name: anonymousId and timestamp become top-level
\* fields with the value of the key and are not moved to context; any other key
\* becomes a field of context with the value of the key and is not a top-level
\* field; integrations and context are the top-level maps of the envelope, hold
\* what options.integrations and options.context defined, and are not fields of
\* context.
C23_RemainingKeysRouted ==
  trial.done =>
    /\ \A key \in DOMAIN Given.rest :
         ~Recognized(key) =>
           /\ key \notin DOMAIN GivenIntegrations => key \notin DOMAIN trial.ret.integrations
           /\ IF key \in {"anonymousId", "timestamp"}
              THEN /\ key \in DOMAIN trial.ret.top
                   /\ trial.ret.top[key] = Given.rest[key]
                   /\ key \notin DOMAIN GivenContext => key \notin DOMAIN trial.ret.context
              ELSE /\ key \in DOMAIN trial.ret.context
                   /\ trial.ret.context[key] = Given.rest[key]
                   /\ key \notin DOMAIN trial.ret.top
    /\ DOMAIN GivenIntegrations \subseteq DOMAIN trial.ret.integrations
    /\ DOMAIN GivenContext \subseteq DOMAIN trial.ret.context
    /\ \A key \in (DOMAIN GivenContext) \ DOMAIN Given.rest :
         trial.ret.context[key] = GivenContext[key]
    /\ {"integrations", "context", "providers"} \cap DOMAIN trial.ret.context = {}

\* normalize has returned for options with the keys B, ip and timestamp beside a
\* context that holds ip, where B is no known destination: timestamp is a
\* top-level field, B and ip are fields of context
C23_Witness ==
  /\ trial.done
  /\ trial.list = <<"A">>
  /\ {"B", "ip", "timestamp"} \subseteq DOMAIN Given.rest
  /\ "ip" \in DOMAIN GivenContext
  /\ Given.integrations.is = "object"
  /\ trial.ret.top["timestamp"] = "t"
  /\ trial.ret.context["B"] = "t"
  /\ trial.ret.context["ip"] = "t"
  /\ trial.ret.context["locale"] = "c"


(***************************************************************************)
(* Properties of context.page (SpecMessages).                              *)
(***************************************************************************)
\* the context.page the caller of the facade method gave, {} where it gave none
CallerPage(e) ==
  LET o == nullish(e.call.options, Object(NoCallOptions)).v
      c == nullish(o.context, Object(NoContext)).v
  IN  nullish(c.page, Object(EmptyMap)).v

\* C24: in the envelope of every facade call, page() too, each of path,
\* referrer, search, title and url of context.page has the value the caller gave
\* in options.context.page, and the computed default where the caller gave none.
C24_CallerPageWins ==
  \A i \in 1..Len(sent) :
    \A k \in PageKeys :
      sent[i].msg.context.v.page.v[k] =
        IF k \in DOMAIN CallerPage(sent[i]) THEN CallerPage(sent[i])[k] ELSE pageDefaults[k]

\* the same, for the calls other than page()
C24_CallerPageWinsButPage ==
  \A i \in 1..Len(sent) :
    sent[i].method # "page" =>
      \A k \in PageKeys :
        sent[i].msg.context.v.page.v[k] =
          IF k \in DOMAIN CallerPage(sent[i]) THEN CallerPage(sent[i])[k] ELSE pageDefaults[k]


(***************************************************************************)
(* Properties of the registration (SpecRegistry).                          *)
(***************************************************************************)
\* C25: addIntegration with a constructor whose prototype has no name throws a
\* TypeError and leaves the Integrations registry as it was; with a named
\* constructor it throws nothing and the registry holds the constructor under
\* that name, beside what it held.
C25_AddIntegrationFailsFast ==
  [][addIntegrationOf =>
       IF raised'.given = ""
       THEN raised'.error = "TypeError" /\ Integrations' = Integrations
       ELSE /\ raised'.error = "none"
            /\ Integrations' = Integrations \cup {raised'.given}]_vars

\* addIntegration has thrown for a nameless constructor after A was registered
C25_Witness ==
  /\ raised = [given |-> "", error |-> "TypeError"]
  /\ Integrations = {"A"}


(***************************************************************************)
(* Frame of the steady-state operations (SpecSteady).                      *)
(***************************************************************************)
\* the registered destinations, the three middleware chains and the failures
Registration ==
  <<Integrations, _integrations, _sourceMiddlewares, _integrationMiddlewares,
    _destinationMiddlewares, failedInitializations>>

\* C26: identify, track, page, group, alias, the steps of their dispatch, and
\* reset leave the registered destinations, the three middleware chains and
\* failedInitializations as they were: a step that changes one of them is none
\* of these operations.
C26_SteadyStateFrame ==
  [][\/ UNCHANGED Registration
     \/ ~(facadeBare \/ applyIntegrationMiddlewares \/ runTask \/ reset)]_vars

\* a reset after a call was dispatched under a source and a destination
\* middleware, with a destination that failed to initialize
C26_Witness ==
  /\ user = NoUser
  /\ log # NoLog
  /\ failedInitializations # <<>>
  /\ _sourceMiddlewares # <<>>
  /\ _destinationMiddlewares # <<>>


(***************************************************************************)
(* Properties of the entities and their store (SpecEntity).                *)
(***************************************************************************)
\* what user.anonymousId() returns when called in this state
NextAnonymousId == anonymousIdGet(store, fresh(heldByEntity)).ret

\* user.id was set from an id to another id
IdChanged ==
  /\ entity.kind = "user"
  /\ did.op = "setId"
  /\ did.before.id # "null"
  /\ did.id # "null"
  /\ did.id # did.before.id

\* user.id was set with no id before, to the id it had, or to null
IdKept ==
  /\ entity.kind = "user"
  /\ did.op = "setId"
  /\ did.before.id = "null" \/ did.id = "null" \/ did.id = did.before.id

\* C27: after user.id was set from an id to a different id, the anonymous id
\* is a newly generated one: anonymousId() returns a uuid that is not the
\* anonymous id held before; after user.id was set with no id before, to the
\* same id, or to null, the anonymous id held is the one held before.
C27_AnonymousIdResetOnIdChange ==
  /\ IdChanged => NextAnonymousId > 0 /\ NextAnonymousId # did.before.anon
  /\ IdKept => storeGet(store, "anon") = did.before.anon

\* the same, for a browser without the legacy cookie '_sio'
C27_ResetWithoutLegacyCookie ==
  store.sio = "null" => C27_AnonymousIdResetOnIdChange


\* the traits given to the last identify, {} where none were given
GivenTraits == IF did.traits.is = "object" THEN did.traits.v ELSE EmptyMap

C28_WitnessNewId ==
  /\ did.op = "identify"
  /\ did.id = "u2"
  /\ did.before.id = "u1"
  /\ did.before.traits = Only("a", "1")
  /\ did.traits.is = "undefined"
  /\ traitsGet(With(entity, store)) = EmptyMap
  /\ entity.kind = "group"


\* C29: after logout() on a user or a group, whatever was done to its id, its
\* traits and its options before, the id reads as null and the traits read as
\* {}; for a user no anonymous id is stored.
C29_LogoutClears ==
  did.op = "logout" =>
    /\ idGet(With(entity, store)) = "null"
    /\ traitsGet(With(entity, store)) = EmptyMap
    /\ entity.kind = "user" => storeGet(store, "anon") = 0


\* the step is a call of user.anonymousId() that follows the removal of the
\* cookie of the anonymous id (fallback: with localStorage in use) or of the
\* stored anonymous id (without localStorage)
AfterRemoval(ops, fallback) ==
  /\ did.op \in ops
  /\ did'.op = "anonymousId"
  /\ store.localEnabled = fallback

\* C30: the anonymousId() that follows the removal of the cookie of the
\* anonymous id, with localStorage in use, returns the id that was set before
\* and the cookie holds it again; the anonymousId() that follows the removal of
\* the stored id, without localStorage, returns a newly generated id that is not
\* the one that was stored.
C30_AnonymousIdFallback ==
  [][/\ AfterRemoval({"cookieRemove"}, TRUE) =>
          did'.ret = did.before.anon /\ store'.cookie.anon = did.before.anon
     /\ AfterRemoval({"cookieRemove", "storageRemove"}, FALSE) =>
          did'.ret > 0 /\ did'.ret # did.before.anon]_vars

\* the same, for a browser without the legacy cookie '_sio'
C30_FallbackWithoutLegacyCookie ==
  [][store.sio = "null" =>
       /\ AfterRemoval({"cookieRemove"}, TRUE) =>
            did'.ret = did.before.anon /\ store'.cookie.anon = did.before.anon
       /\ AfterRemoval({"cookieRemove", "storageRemove"}, FALSE) =>
            did'.ret > 0 /\ did'.ret # did.before.anon]_vars


\* C31: with options.persist on, the id of a user or a group read after the
\* cookie of the id was removed is the id that the cookie held where the
\* localStorage fallback is in use, and null where the entity was created with
\* localStorageFallbackDisabled.
C31_IdFallback ==
  (did.op = "idCookieRemove" /\ entity.options.persist) =>
    idGet(With(entity, store)) = IF store.localEnabled THEN did.id ELSE "null"

\* the cookie of the id 'u1' of a group was removed and group.id is 'u1'
C31_Witness ==
  /\ did.op = "idCookieRemove"
  /\ did.id = "u1"
  /\ entity.kind = "group"
  /\ entity.options.persist
  /\ store.localEnabled
  /\ store.cookie.id = "null"
  /\ idGet(With(entity, store)) = "u1"


\* what a step that is a call of user.anonymousId() has to do, and what a step
\* that neither sets the anonymous id, nor logs out, nor sets the id of the
\* user, nor removes a stored value has to leave alone
StableStep ==
  /\ did'.op = "anonymousId" =>
       \* the id returned is not empty and is the one stored after the call
       /\ did'.ret # 0
       /\ storeGet(store', "anon") = did'.ret
       \* on empty storage it is a generated one
       /\ (storeGet(store, "anon") = 0 /\ store.sio = "null") => did'.ret > 0
       \* a stored one is returned and not overwritten
       /\ storeGet(store, "anon") # 0 => did'.ret = storeGet(store, "anon")
       \* the call before returned the same
       /\ did.op = "anonymousId" => did'.ret = did.ret
  /\ (\/ did'.op \in {"setTraits", "setPersist"}
      \/ did'.op = "identify" /\ did'.id = "undefined") =>
       storeGet(store', "anon") = storeGet(store, "anon")

\* C32: user.anonymousId() on empty storage returns a generated, non-empty id
\* and stores it; a call returns the stored id and leaves it stored; two calls
\* in a row return the same id, and what lies between two calls, other than a
\* set of the anonymous id, a logout or a set of the user id, leaves the stored
\* id as it is.
C32_AnonymousIdStable == [][StableStep]_vars

\* the same, for a browser where cookies work or localStorage is in use
C32_StableWhereStored == [][(store.cookies \/ store.localEnabled) => StableStep]_vars


(***************************************************************************)
(* Properties of consecutive calls                                         *)
(***************************************************************************)
\* C35: a second call that is given the options object of the first call
\* yields the integrations and the context of the first call: what the caller
\* put in options to enable or disable a destination is still in force.
C35_SameOptionsSameEnvelope ==
  trial.again =>
    /\ trial.next.integrations = trial.ret.integrations
    /\ trial.next.context = trial.ret.context

\* the same, for options that hold an object under integrations
C35_SameWhereIntegrationsGiven ==
  (trial.again /\ Given.integrations.is = "object") => C35_SameOptionsSameEnvelope


\* the step is a facade call; this is its envelope
Handed == sent'[Len(sent')]
FacadeStep == sent' # sent /\ sent' # <<>>

\* the options of the call hold an anonymousId
WithAnonymousId(e) == e.call.options.is = "object" /\ e.call.options.v.anonymousId # 0

\* the call sets the id of a user who has an id to another id
ChangesUserId == user.id # "null" /\ user'.id # user.id

\* a facade call with options.anonymousId = a hands over an envelope with the
\* anonymousId a and leaves a stored
GivenIsCarriedAndStored ==
  (FacadeStep /\ WithAnonymousId(Handed)) =>
    /\ Handed.msg.anonymousId = Handed.call.options.v.anonymousId
    /\ user'.anonymousId = Handed.call.options.v.anonymousId

\* a facade call without options.anonymousId, made while an anonymous id is
\* stored, hands over an envelope with that id and leaves it stored
StoredIsCarriedAndKept ==
  (FacadeStep /\ ~WithAnonymousId(Handed) /\ user.anonymousId # 0) =>
    /\ Handed.msg.anonymousId = user.anonymousId
    /\ user'.anonymousId = user.anonymousId

WrappedByLast(n) ==
  /\ n \in Range(_integrations)
  /\ pages[n].wraps # <<>>
  /\ pages[n].wraps[Len(pages[n].wraps)] = Len(initialPageSkipped)

\* of its page calls since the initialize, n ignored the first and handled
\* every later one
FirstIgnored(n) ==
  pages[n].handled = IF pages[n].calls = 0 THEN 0 ELSE pages[n].calls - 1

\* C37: after an initialize with options.initialPageview, every destination
\* whose own options.initialPageview is false has ignored the first of its page
\* calls and handled every later one, however many destinations have that
\* setting.
C37_EachIgnoresFirstPage ==
  \A n \in DestNames : WrappedByLast(n) => FirstIgnored(n)

\* the same, after one initialize in which one destination has the setting
C37_OneIgnoresFirstPage ==
  (Len(initialPageSkipped) = 1 /\ Cardinality({ n \in DestNames : WrappedByLast(n) }) = 1) =>
    C37_EachIgnoresFirstPage


(***************************************************************************)
(* Properties of ready(fn) (SpecCallbacks).                                *)
(***************************************************************************)
\* the step gives function i to ready(fn)
GivenToReady(i) == callbacks[i].st = "none" /\ callbacks'[i].st # "none"

\* the step emits 'ready' on the facade
FacadeReadyStep == \E c \in Closures : readyEmits'[c] > readyEmits[c]

C38_ReadyFnOnce ==
  [][\A i \in 1..MaxFns :
       /\ callbacks'[i].n <= 1
       /\ GivenToReady(i) =>
            /\ callbacks'[i].n = 0
            /\ callbacks'[i].st = IF _readied THEN "queued" ELSE "listening"
       /\ (callbacks[i].st = "listening" /\ FacadeReadyStep) =>
            callbacks'[i].st = "called"]_vars

(***************************************************************************)
(* Properties of the method-named events (SpecEvents).                     *)
(***************************************************************************)
\* C39: a facade call (identify, track, page, group with arguments, alias)
\* emits the event named after its method exactly once, after its _invoke and
\* not while the _invoke is still going through the destinations, whatever the
\* source chain did with the envelope and whatever a destination did.
C39_MethodEventOncePerCall ==
  events.method # "none" =>
    /\ Len(sent) > 0 /\ events.method = sent[Len(sent)].method
    /\ log.active
    /\ IF events.open THEN events.n = 0 /\ run.i > 0 ELSE events.n = 1

\* a call is over whose envelope reached two destinations, the handler of one
\* of them threw, and the event was emitted once
C39_Witness ==
  /\ events.method = "group" /\ ~events.open /\ events.n = 1
  /\ run.i = 0 /\ log.src = "passed"
  /\ Range(_integrations) = DestNames
  /\ \E d \in DestNames : log.d[d].err # "none"

\* a call is over whose envelope the source chain dropped, and the event was
\* emitted once
C39_WitnessDropped ==
  /\ events.method = "alias" /\ ~events.open /\ events.n = 1
  /\ log.src = "dropped"

(***************************************************************************)
(* Properties of Metrics (SpecMetrics).                                    *)
(***************************************************************************)
\* a flush leaves the queue empty
FlushEmpties == metrics.last.op = "flush" => metrics.queue = <<>>

\* an increment that put a metric with 'error' past position 0 into the
\* queue flushed the queue
ErrorFlushes ==
  (metrics.last.op = "increment" /\ metrics.last.pushed
     /\ indexOfError(metrics.last.metric) > 0) => metrics.queue = <<>>

\* C40: after any sequence of increment, flush and options calls the queue
\* holds maxQueueSize entries at most; after a flush it is empty, and after an
\* increment that put a metric with 'error' past position 0 into it too.
C40_QueueWithinMax ==
  /\ Len(metrics.queue) <= metrics.maxQueueSize
  /\ FlushEmpties
  /\ ErrorFlushes

\* the parts about flush hold
C40_FlushLeavesEmpty == FlushEmpties /\ ErrorFlushes

\* the queue never grows beyond maxQueueSize
C40_GrowsWithinMax ==
  [][Len(metrics'.queue) > Len(metrics.queue) =>
       Len(metrics'.queue) <= metrics'.maxQueueSize]_vars

====
